---- MODULE Spec2Model ----
(***************************************************************************)
(* Admission-control middleware (boseth-art/API_middeleware):              *)
(*   src/src/rateLimiter.js    TokenBucket    (shared store, Lua script)   *)
(*   src/src/requestQueue.js   RequestQueue   (shared store, list)         *)
(*   src/src/circuitBreaker.js CircuitBreaker (process-local)              *)
(*   src/index.js              POST /login handler (coordinator)           *)
(*   src/src/worker.js         processQueue loop (worker)                  *)
(*                                                                         *)
(* Time is Date.now() in milliseconds.  Every `await` of the source is a   *)
(* point where other tasks may run, so an operation is split there into    *)
(* steps; what the store executes (a script, RPUSH, LPOP, BLPOP) is one    *)
(* atomic step.                                                            *)
(***************************************************************************)
EXTENDS Integers, Sequences, FiniteSets, TLC

(***************************************************************************)
(* Bounds of the model.                                                    *)
(***************************************************************************)
\* client tasks that call one component concurrently
NumClients == 2
\* largest bucket capacity the constructor is given
MaxCapacity == 2
\* tryConsume calls evaluated against one refill epoch of the bucket
MaxCalls == 3
\* clock steps taken in a behaviour of the limiter specification
MaxBucketTicks == 4
\* enqueue calls made in a behaviour of the queue specification
MaxEnqueues == 2
\* clock steps taken in a behaviour of the queue specification
MaxQueueTicks == 1
\* largest failureThreshold and successThreshold the constructor is given
MaxThreshold == 2
\* clock steps taken in a behaviour of the breaker specification
MaxBreakerTicks == 6
\* /login requests received in a behaviour of the system specification
NumRequests == 2
\* clock steps taken in a behaviour of the system specification
MaxSystemTicks == 1

VARIABLES
    clock,          \* Date.now(), milliseconds
    capacity,       \* TokenBucket.capacity
    fillRate,       \* TokenBucket.fillRate, tokens per second, as <<num, den>>
    bucket,         \* the hash stored under bucketKey
    pc,             \* task -> position in the operation it runs
    now,            \* task -> `now` computed before the store call
    ret,            \* the operation that returned last: its value, or that it threw
    batch,          \* history: the tryConsume scripts run since a refill was credited
    queue,          \* the list stored under queueName, head first
    waiting,        \* the clients blocked in BLPOP, longest-waiting first
    nextId,         \* the uuids generated so far, plus one
    queuedRequest,  \* task -> the item its enqueue is about to push
    appended,       \* history: the items in the order their RPUSH took effect
    popped,         \* history: the pops in the order they took effect
    failureThreshold,   \* CircuitBreaker.failureThreshold
    resetTimeout,       \* CircuitBreaker.resetTimeout, milliseconds
    successThreshold,   \* CircuitBreaker.successThreshold
    breaker,        \* process -> its CircuitBreaker: state, failures, successes, lastFailureTime
    streak,         \* history: process -> failures completed in CLOSED since the last success
    probe,          \* history: process -> the calls in flight that moved its breaker to HALF_OPEN
    last,           \* history: process -> the last step of its breaker and the state it found
    requestId,      \* /login request -> the uuid its handler generated
    tokenConsumed,  \* task -> what its tryConsume returned
    dequeued,       \* the item the worker popped and is processing
    response,       \* /login request -> the response its handler sent
    calls           \* history: task -> the calls it made, for the worker in this iteration

bucketVars == <<capacity, fillRate, bucket>>
limiterVars == <<capacity, fillRate, bucket, batch>>
queueVars == <<queue, waiting, nextId, appended, popped>>
breakerVars == <<failureThreshold, resetTimeout, successThreshold, breaker,
                 streak, probe, last>>
taskVars == <<pc, now, ret, queuedRequest>>
systemVars == <<requestId, tokenConsumed, dequeued, response, calls>>
vars == <<clock, capacity, fillRate, bucket, pc, now, ret, batch,
          queue, waiting, nextId, queuedRequest, appended, popped,
          failureThreshold, resetTimeout, successThreshold, breaker, streak, probe, last,
          requestId, tokenConsumed, dequeued, response, calls>>

Min(a, b) == IF a <= b THEN a ELSE b
Max(a, b) == IF a >= b THEN a ELSE b

(***************************************************************************)
(* TokenBucket                                                             *)
(***************************************************************************)
Clients == 1..NumClients

\* no item: null
NoItem == [null |-> TRUE]

\* fill rates given to the constructor: 0, 1/2, 1 and 2 tokens per second
FillRates == {<<0, 1>>, <<1, 2>>, <<1, 1>>, <<2, 1>>}

\* the key absent from the store: HGETALL returns an empty array
NoBucket == [set |-> FALSE, tokens |-> 0, lastRefillTime |-> 0]

\* Math.floor(Date.now() / 1000)
NowSeconds(ms) == ms \div 1000

\* an absent key read as an empty bucket
StoredTokensEmpty(b, cap) == IF b.set THEN b.tokens ELSE 0

\* tonumber(bucket[2]) or capacity
StoredTokens(b, cap) == IF b.set THEN b.tokens ELSE cap

\* tonumber(bucket[4]) or now
StoredRefillTime(b, t) == IF b.set THEN b.lastRefillTime ELSE t

\* math.floor(timePassed * fillRate), timePassed = now - lastRefillTime
TokensToAdd(b, rate, t) ==
    ((t - StoredRefillTime(b, t)) * rate[1]) \div rate[2]

\* tokens = math.min(capacity, tokens + tokensToAdd)
Refilled(b, cap, rate, t) ==
    Min(cap, StoredTokens(b, cap) + TokensToAdd(b, rate, t))

\* the branch of consumeScript: decrement when tokens >= 1
ConsumeBranchNoDecrement(tokens) ==
    IF tokens >= 1 THEN [tokens |-> tokens, result |-> 1]
    ELSE [tokens |-> tokens, result |-> 0]

ConsumeBranch(tokens) ==
    IF tokens >= 1 THEN [tokens |-> tokens - 1, result |-> 1]
    ELSE [tokens |-> tokens, result |-> 0]

\* consumeScript as one atomic evaluation: the hash it writes and what it returns
ConsumeScript(b, cap, rate, t) ==
    LET br == ConsumeBranch(Refilled(b, cap, rate, t))
    IN  [bucket |-> [set |-> TRUE, tokens |-> br.tokens, lastRefillTime |-> t],
         result |-> br.result]

\* a getTokens that returns the stored count, without the refill
GetTokensScriptStored(b, cap, rate, t) == StoredTokens(b, cap)

\* the script of getTokens: the refilled count, nothing written
GetTokensScript(b, cap, rate, t) == Refilled(b, cap, rate, t)

\* history of the scripts evaluated since the last one that credited a refill:
\* k tokens were there after that credit, n scripts ran, admitted returned 1,
\* conc is the largest number of tryConsume calls in flight at one of them
NextBatch(b, cap, rate, t, inflight) ==
    LET r == ConsumeScript(b, cap, rate, t).result
    IN  IF TokensToAdd(b, rate, t) # 0
        THEN [k |-> Refilled(b, cap, rate, t), n |-> 1, admitted |-> r,
              conc |-> inflight]
        ELSE [k |-> batch.k, n |-> batch.n + 1, admitted |-> batch.admitted + r,
              conc |-> Max(batch.conc, inflight)]

InFlight == Cardinality({c \in DOMAIN pc : pc[c] = "tryConsume"})

NoRet == [op |-> "none", val |-> 0, threw |-> FALSE]

\* tryConsume, line 49: now is computed, then the store is called
TryConsumeCall(c) ==
    /\ pc[c] = "idle"
    /\ batch.n + InFlight < MaxCalls
    /\ pc' = [pc EXCEPT ![c] = "tryConsume"]
    /\ now' = [now EXCEPT ![c] = NowSeconds(clock)]
    /\ UNCHANGED <<systemVars, clock, limiterVars, ret, queueVars, queuedRequest, breakerVars>>

\* tryConsume, lines 51-59: the store evaluates the script; result === 1
TryConsumeEval(c) ==
    /\ pc[c] = "tryConsume"
    /\ LET out == ConsumeScript(bucket, capacity, fillRate, now[c])
       IN  /\ bucket' = out.bucket
           /\ ret' = [op |-> "tryConsume", val |-> (out.result = 1), threw |-> FALSE]
    /\ batch' = NextBatch(bucket, capacity, fillRate, now[c], InFlight)
    /\ pc' = [pc EXCEPT ![c] = "idle"]
    /\ now' = [now EXCEPT ![c] = 0]
    /\ UNCHANGED <<systemVars, clock, capacity, fillRate, queueVars, queuedRequest, breakerVars>>

\* tryConsume whose catch block rethrows
TryConsumeErrorThrows(c) ==
    /\ pc[c] = "tryConsume"
    /\ ret' = [op |-> "tryConsume", val |-> FALSE, threw |-> TRUE]
    /\ pc' = [pc EXCEPT ![c] = "idle"]
    /\ now' = [now EXCEPT ![c] = 0]
    /\ UNCHANGED <<systemVars, clock, limiterVars, queueVars, queuedRequest, breakerVars>>

\* tryConsume, lines 60-66: the store call fails; return false
TryConsumeError(c) ==
    /\ pc[c] = "tryConsume"
    /\ ret' = [op |-> "tryConsume", val |-> FALSE, threw |-> FALSE]
    /\ pc' = [pc EXCEPT ![c] = "idle"]
    /\ now' = [now EXCEPT ![c] = 0]
    /\ UNCHANGED <<systemVars, clock, limiterVars, queueVars, queuedRequest, breakerVars>>

\* getTokens, line 78
GetTokensCall(c) ==
    /\ pc[c] = "idle"
    /\ pc' = [pc EXCEPT ![c] = "getTokens"]
    /\ now' = [now EXCEPT ![c] = NowSeconds(clock)]
    /\ UNCHANGED <<systemVars, clock, limiterVars, ret, queueVars, queuedRequest, breakerVars>>

\* getTokens, lines 100-109
GetTokensEval(c) ==
    /\ pc[c] = "getTokens"
    /\ ret' = [op |-> "getTokens",
               val |-> GetTokensScript(bucket, capacity, fillRate, now[c]),
               threw |-> FALSE]
    /\ pc' = [pc EXCEPT ![c] = "idle"]
    /\ now' = [now EXCEPT ![c] = 0]
    /\ UNCHANGED <<systemVars, clock, limiterVars, queueVars, queuedRequest, breakerVars>>

\* getTokens, lines 110-113: the store call fails; return capacity
GetTokensError(c) ==
    /\ pc[c] = "getTokens"
    /\ ret' = [op |-> "getTokens", val |-> capacity, threw |-> FALSE]
    /\ pc' = [pc EXCEPT ![c] = "idle"]
    /\ now' = [now EXCEPT ![c] = 0]
    /\ UNCHANGED <<systemVars, clock, limiterVars, queueVars, queuedRequest, breakerVars>>

\* the wall clock advances by d milliseconds, at most maxTicks times
Tick(d, maxTicks) ==
    /\ clock + d <= d * maxTicks
    /\ clock' = clock + d
    /\ UNCHANGED <<systemVars, limiterVars, taskVars, queueVars, breakerVars>>

\* the client tasks of a component specification, before their first call
ClientsIdle ==
    /\ pc = [c \in Clients |-> "idle"]
    /\ now = [c \in Clients |-> 0]
    /\ ret = NoRet
    /\ queuedRequest = [c \in Clients |-> NoItem]

\* no list under queueName, nobody blocked on it
QueueEmpty ==
    /\ queue = <<>>
    /\ waiting = <<>>
    /\ nextId = 1
    /\ appended = <<>>
    /\ popped = <<>>

\* new CircuitBreaker(...): state CLOSED, counts 0, lastFailureTime 0
NewBreaker == [state |-> "CLOSED", failures |-> 0, successes |-> 0, lastFailureTime |-> 0]

\* no process holds a breaker
BreakerUnused ==
    /\ failureThreshold = 1
    /\ resetTimeout = 0
    /\ successThreshold = 1
    /\ breaker = <<>>
    /\ streak = <<>>
    /\ probe = <<>>
    /\ last = <<>>

\* no /login request and no worker
SystemUnused ==
    /\ requestId = <<>>
    /\ tokenConsumed = <<>>
    /\ dequeued = NoItem
    /\ response = <<>>
    /\ calls = <<>>

BucketInit ==
    /\ clock = 0
    /\ capacity \in 1..MaxCapacity
    /\ fillRate \in FillRates
    /\ bucket = NoBucket
    /\ batch = [k |-> capacity, n |-> 0, admitted |-> 0, conc |-> 0]
    /\ ClientsIdle
    /\ QueueEmpty
    /\ BreakerUnused
    /\ SystemUnused

BucketNext ==
    \/ \E c \in Clients : TryConsumeCall(c)
    \/ \E c \in Clients : TryConsumeEval(c)
    \/ \E c \in Clients : TryConsumeError(c)
    \/ \E c \in Clients : GetTokensCall(c)
    \/ \E c \in Clients : GetTokensEval(c)
    \/ \E c \in Clients : GetTokensError(c)
    \/ Tick(500, MaxBucketTicks)

SpecBucket == BucketInit /\ [][BucketNext]_vars

(***************************************************************************)
(* Claims about the TokenBucket                                            *)
(***************************************************************************)

\* C1: the stored tokens after every tryConsume and the value returned by
\* every getTokens are within 0..capacity.
TokenRange ==
    /\ bucket.set => (0 <= bucket.tokens /\ bucket.tokens <= capacity)
    /\ ret.op = "getTokens" => (0 <= ret.val /\ ret.val <= capacity)

\* C2: of the n tryConsume scripts evaluated against k >= 0 whole tokens with no
\* refill credited between them, exactly min(n, k) returned 1, and each
\* admission took its own token out of the bucket.
AdmissionLinearizable ==
    (bucket.set /\ batch.k >= 0) =>
        /\ batch.admitted = Min(batch.n, batch.k)
        /\ bucket.tokens = batch.k - batch.admitted

\* C2 witness: two tryConsume calls were in flight together against one token;
\* one was admitted and the other denied.
AdmissionLinearizableWitness ==
    /\ batch.conc >= 2
    /\ batch.k = 1
    /\ batch.n >= 2
    /\ batch.admitted = 1
    /\ ret.op = "tryConsume"
    /\ ret.val = FALSE

\* C13: when the store cannot be reached, tryConsume returns false without
\* throwing and the stored bucket is as before, and getTokens returns capacity
\* without throwing.
LimiterFailurePolicy ==
    [][\A c \in Clients :
         /\ TryConsumeError(c) =>
              /\ ret' = [op |-> "tryConsume", val |-> FALSE, threw |-> FALSE]
              /\ bucket' = bucket
         /\ GetTokensError(c) =>
              /\ ret' = [op |-> "getTokens", val |-> capacity, threw |-> FALSE]
              /\ bucket' = bucket]_vars

\* C13 witness: with no refill and a token in the bucket, a tryConsume returned
\* false: its store call failed.
LimiterFailurePolicyWitness ==
    /\ fillRate = <<0, 1>>
    /\ bucket.set
    /\ bucket.tokens >= 1
    /\ ret = [op |-> "tryConsume", val |-> FALSE, threw |-> FALSE]

\* C14: on a key that was absent, with every call made and evaluated in clock
\* second 0, the n-th tryConsume the store evaluates returns true exactly when
\* n <= capacity, and a getTokens evaluated after j admitted calls returns
\* capacity - j.
FreshBucket ==
    [][clock < 1000 =>
         \A c \in Clients :
             /\ TryConsumeEval(c) => ret'.val = (batch.n + 1 <= capacity)
             /\ GetTokensEval(c) =>
                  /\ batch.admitted = Min(batch.n, capacity)
                  /\ ret'.val = capacity - batch.admitted]_vars

\* C14 witness: capacity 2, three calls in second 0: two admitted, then the
\* third was denied by the script, and the bucket holds 0.
FreshBucketWitness ==
    /\ capacity = 2
    /\ clock < 1000
    /\ batch = [k |-> 2, n |-> 3, admitted |-> 2, conc |-> batch.conc]
    /\ ret = [op |-> "tryConsume", val |-> FALSE, threw |-> FALSE]
    /\ bucket.set /\ bucket.tokens = 0

\* C16: a getTokens the store evaluates leaves the stored tokens and
\* lastRefillTime as they were, and returns
\* min(capacity, tokens + floor((now - lastRefillTime) * fillRate)), which is the
\* count a tryConsume given the same now would reach before its decrement.
GetTokensReadOnly ==
    [][\A c \in Clients :
         /\ GetTokensEval(c) =>
              /\ bucket' = bucket
              /\ ret'.val =
                    Min(capacity,
                        StoredTokens(bucket, capacity)
                          + ((now[c] - StoredRefillTime(bucket, now[c])) * fillRate[1])
                                \div fillRate[2])
              /\ LET out == ConsumeScript(bucket, capacity, fillRate, now[c])
                 IN  ret'.val = out.bucket.tokens + out.result
         /\ GetTokensError(c) => bucket' = bucket]_vars

\* C16 witness: capacity 2, the stored count is 0 and a getTokens returned 1: it
\* computed a refill and did not store it.
GetTokensReadOnlyWitness ==
    /\ capacity = 2
    /\ bucket.set
    /\ bucket.tokens = 0
    /\ ret = [op |-> "getTokens", val |-> 1, threw |-> FALSE]

(***************************************************************************)
(* RequestQueue                                                            *)
(***************************************************************************)
\* payloads given to enqueue; the second carries its own id and timestamp
Payloads == {[order |-> 1], [order |-> 2, id |-> 0, timestamp |-> 0]}

\* timeouts given to blockDequeue, seconds; 0 blocks indefinitely
BlockTimeouts == {0, 1}

\* { id: requestId, timestamp: Date.now(), ...requestData }: the payload's fields
\* are spread last.  enq is history, not part of the stored JSON: the uuid this
\* enqueue generated, which names the enqueue whatever the payload holds.
QueuedRequest(uuid, ms, requestData) ==
    [enq |-> uuid] @@ requestData @@ [id |-> uuid, timestamp |-> ms]

\* LPUSH instead of RPUSH
RpushAtHead(q, x) == <<x>> \o q

\* RPUSH queueName x
Rpush(q, x) == Append(q, x)

\* a pop that leaves the element in the list
LpopRestPeek(q) == q

\* the list after LPOP / BLPOP took its head
LpopRest(q) == Tail(q)

\* a BLPOP whose timeout has passed as soon as it blocks
WaiterExpired(c, timeout) ==
    [task |-> c, deadline |-> IF timeout = 0 THEN -1 ELSE clock,
     since |-> clock, timeout |-> timeout]

\* the entry of a client that blocks in BLPOP now; since and timeout are
\* history: when it blocked and the timeout it gave
Waiter(c, timeout) ==
    [task |-> c, deadline |-> IF timeout = 0 THEN -1 ELSE clock + timeout * 1000,
     since |-> clock, timeout |-> timeout]

WaiterOf(c) == CHOOSE i \in 1..Len(waiting) : waiting[i].task = c

WithoutWaiter(c) ==
    SubSeq(waiting, 1, WaiterOf(c) - 1) \o SubSeq(waiting, WaiterOf(c) + 1, Len(waiting))

\* enqueue, lines 27-28: the id and the envelope are made before the store call
EnqueueCall(c, requestData) ==
    /\ pc[c] = "idle"
    /\ nextId <= MaxEnqueues
    /\ queuedRequest' = [queuedRequest EXCEPT ![c] = QueuedRequest(nextId, clock, requestData)]
    /\ nextId' = nextId + 1
    /\ pc' = [pc EXCEPT ![c] = "rpush"]
    /\ UNCHANGED <<systemVars, clock, limiterVars, now, ret, queue, waiting, appended, popped, breakerVars>>

\* enqueue, lines 30-32: the store appends the item; it hands the head of the
\* list to the longest-blocked BLPOP client, if there is one, in the same step
EnqueueRpush(c) ==
    /\ pc[c] = "rpush"
    /\ LET x == queuedRequest[c]
           pushed == Rpush(queue, x)
       IN  /\ appended' = Append(appended, x.enq)
           /\ ret' = [op |-> "enqueue", val |-> x.enq, threw |-> FALSE]
           /\ IF waiting = <<>>
              THEN /\ queue' = pushed
                   /\ pc' = [pc EXCEPT ![c] = "idle"]
                   /\ queuedRequest' = [queuedRequest EXCEPT ![c] = NoItem]
                   /\ UNCHANGED <<waiting, popped>>
              ELSE LET w == Head(waiting).task
                   IN  /\ queue' = LpopRest(pushed)
                       /\ waiting' = Tail(waiting)
                       /\ popped' = Append(popped, Head(pushed).enq)
                       /\ pc' = [pc EXCEPT ![c] = "idle", ![w] = "unblocked"]
                       /\ queuedRequest' = [queuedRequest EXCEPT ![c] = NoItem,
                                                                 ![w] = Head(pushed)]
    /\ UNCHANGED <<systemVars, clock, limiterVars, now, nextId, breakerVars>>

\* enqueue, lines 33-36: the store call fails; the error is thrown
EnqueueError(c) ==
    /\ pc[c] = "rpush"
    /\ ret' = [op |-> "enqueue", val |-> 0, threw |-> TRUE]
    /\ pc' = [pc EXCEPT ![c] = "idle"]
    /\ queuedRequest' = [queuedRequest EXCEPT ![c] = NoItem]
    /\ UNCHANGED <<systemVars, clock, limiterVars, now, queueVars, breakerVars>>

\* a dequeue that throws on an empty list
DequeueLpopThrows(c) ==
    /\ pc[c] = "idle"
    /\ IF queue = <<>>
       THEN /\ ret' = [op |-> "dequeue", val |-> NoItem, threw |-> TRUE]
            /\ UNCHANGED <<queue, popped>>
       ELSE /\ ret' = [op |-> "dequeue", val |-> Head(queue), threw |-> FALSE]
            /\ queue' = LpopRest(queue)
            /\ popped' = Append(popped, Head(queue).enq)
    /\ UNCHANGED <<systemVars, clock, limiterVars, pc, now, queuedRequest, waiting, nextId, appended, breakerVars>>

\* dequeue, lines 44-51: LPOP; null on an empty list
DequeueLpop(c) ==
    /\ pc[c] = "idle"
    /\ IF queue = <<>>
       THEN /\ ret' = [op |-> "dequeue", val |-> NoItem, threw |-> FALSE]
            /\ UNCHANGED <<queue, popped>>
       ELSE /\ ret' = [op |-> "dequeue", val |-> Head(queue), threw |-> FALSE]
            /\ queue' = LpopRest(queue)
            /\ popped' = Append(popped, Head(queue).enq)
    /\ UNCHANGED <<systemVars, clock, limiterVars, pc, now, queuedRequest, waiting, nextId, appended, breakerVars>>

\* dequeue, lines 52-55: the store call fails
DequeueError(c) ==
    /\ pc[c] = "idle"
    /\ ret' = [op |-> "dequeue", val |-> NoItem, threw |-> TRUE]
    /\ UNCHANGED <<systemVars, clock, limiterVars, pc, now, queuedRequest, queueVars, breakerVars>>

\* blockDequeue, line 66: BLPOP pops the head at once, or blocks the client
BlockDequeueCall(c, timeout) ==
    /\ pc[c] = "idle"
    /\ IF queue = <<>>
       THEN /\ waiting' = Append(waiting, Waiter(c, timeout))
            /\ pc' = [pc EXCEPT ![c] = "blocked"]
            /\ UNCHANGED <<queue, popped, ret>>
       ELSE /\ ret' = [op |-> "blockDequeue", val |-> Head(queue), threw |-> FALSE]
            /\ queue' = LpopRest(queue)
            /\ popped' = Append(popped, Head(queue).enq)
            /\ UNCHANGED <<waiting, pc>>
    /\ UNCHANGED <<systemVars, clock, limiterVars, now, queuedRequest, nextId, appended, breakerVars>>

\* blockDequeue, lines 67-71: the reply of BLPOP arrives with an element
BlockDequeueReturn(c) ==
    /\ pc[c] = "unblocked"
    /\ ret' = [op |-> "blockDequeue", val |-> queuedRequest[c], threw |-> FALSE]
    /\ pc' = [pc EXCEPT ![c] = "idle"]
    /\ queuedRequest' = [queuedRequest EXCEPT ![c] = NoItem]
    /\ UNCHANGED <<systemVars, clock, limiterVars, now, queueVars, breakerVars>>

\* blockDequeue, line 72: BLPOP timed out, the reply is nil
BlockDequeueTimeout(c) ==
    /\ pc[c] = "blocked"
    /\ waiting[WaiterOf(c)].deadline >= 0
    /\ clock >= waiting[WaiterOf(c)].deadline
    /\ waiting' = WithoutWaiter(c)
    /\ ret' = [op |-> "blockDequeue", val |-> NoItem, threw |-> FALSE]
    /\ pc' = [pc EXCEPT ![c] = "idle"]
    /\ UNCHANGED <<systemVars, clock, limiterVars, now, queuedRequest, queue, nextId, appended, popped, breakerVars>>

\* blockDequeue, lines 73-76: the blocking connection fails
BlockDequeueError(c) ==
    /\ pc[c] = "blocked"
    /\ waiting' = WithoutWaiter(c)
    /\ ret' = [op |-> "blockDequeue", val |-> NoItem, threw |-> TRUE]
    /\ pc' = [pc EXCEPT ![c] = "idle"]
    /\ UNCHANGED <<systemVars, clock, limiterVars, now, queuedRequest, queue, nextId, appended, popped, breakerVars>>

\* a length that counts every item ever appended
LengthCallAppended(c) ==
    /\ pc[c] = "idle"
    /\ ret' = [op |-> "length", val |-> Len(appended), threw |-> FALSE]
    /\ UNCHANGED <<systemVars, clock, limiterVars, pc, now, queuedRequest, queueVars, breakerVars>>

\* length, lines 84-85: LLEN
LengthCall(c) ==
    /\ pc[c] = "idle"
    /\ ret' = [op |-> "length", val |-> Len(queue), threw |-> FALSE]
    /\ UNCHANGED <<systemVars, clock, limiterVars, pc, now, queuedRequest, queueVars, breakerVars>>

\* length, lines 86-89: the store call fails
LengthError(c) ==
    /\ pc[c] = "idle"
    /\ ret' = [op |-> "length", val |-> 0, threw |-> TRUE]
    /\ UNCHANGED <<systemVars, clock, limiterVars, pc, now, queuedRequest, queueVars, breakerVars>>

\* a limiter nobody calls
LimiterUnused ==
    /\ capacity = 1
    /\ fillRate = <<0, 1>>
    /\ bucket = NoBucket
    /\ batch = [k |-> 1, n |-> 0, admitted |-> 0, conc |-> 0]

QueueInit ==
    /\ clock = 0
    /\ LimiterUnused
    /\ ClientsIdle
    /\ QueueEmpty
    /\ BreakerUnused
    /\ SystemUnused

QueueNext ==
    \/ \E c \in Clients, requestData \in Payloads : EnqueueCall(c, requestData)
    \/ \E c \in Clients : EnqueueRpush(c)
    \/ \E c \in Clients : EnqueueError(c)
    \/ \E c \in Clients : DequeueLpop(c)
    \/ \E c \in Clients : DequeueError(c)
    \/ \E c \in Clients, timeout \in BlockTimeouts : BlockDequeueCall(c, timeout)
    \/ \E c \in Clients : BlockDequeueReturn(c)
    \/ \E c \in Clients : BlockDequeueTimeout(c)
    \/ \E c \in Clients : BlockDequeueError(c)
    \/ \E c \in Clients : LengthCall(c)
    \/ \E c \in Clients : LengthError(c)
    \/ Tick(1000, MaxQueueTicks)

SpecQueue == QueueInit /\ [][QueueNext]_vars

(***************************************************************************)
(* Claims about the RequestQueue                                           *)
(***************************************************************************)
Enqs(q) == [i \in 1..Len(q) |-> q[i].enq]

\* C3: items leave the queue in exactly the order in which their appends took
\* effect: the pops so far are the first appends, in append order, and the list
\* holds the remaining appends, in append order.
QueueFifo ==
    /\ Len(popped) <= Len(appended)
    /\ popped = SubSeq(appended, 1, Len(popped))
    /\ Enqs(queue) = SubSeq(appended, Len(popped) + 1, Len(appended))

\* C3 witness: two producers' appends took effect in the other order than their
\* ids were generated, and both items were popped.
QueueFifoWitness ==
    /\ Len(popped) >= 2
    /\ appended[1] > appended[2]

\* C4: no enqueued item is returned by two pops, and an item that was returned
\* is no longer in the list, nor on its way to a second consumer.
ConsumedOnce ==
    /\ \A i, j \in 1..Len(popped) : popped[i] = popped[j] => i = j
    /\ \A i \in 1..Len(queue), j \in 1..Len(popped) : queue[i].enq # popped[j]
    /\ \A c, d \in Clients :
         (pc[c] = "unblocked" /\ pc[d] = "unblocked" /\ c # d)
             => queuedRequest[c].enq # queuedRequest[d].enq

\* C4 witness: a consumer blocked in blockDequeue was handed the first item and,
\* before its call returned, another consumer's dequeue popped the second one.
ConsumedOnceWitness ==
    /\ Len(popped) = 2
    /\ \E c \in Clients :
         /\ pc[c] = "unblocked"
         /\ queuedRequest[c].enq = popped[1]
    /\ ret.op = "dequeue"
    /\ ~ret.threw
    /\ ret.val # NoItem
    /\ ret.val.enq = popped[2]
    /\ queue = <<>>

\* C17: a dequeue on an empty list returns null, does not throw, and leaves the
\* list empty and the caller ready to call again, so a repeated dequeue does
\* the same.
DequeueEmpty ==
    [][\A c \in Clients :
         (queue = <<>> /\ ret'.op = "dequeue" /\ DequeueLpop(c)) =>
             /\ ret' = [op |-> "dequeue", val |-> NoItem, threw |-> FALSE]
             /\ queue' = <<>>
             /\ pc' = pc]_vars

\* C17 witness: after an item was enqueued and popped, a dequeue on the empty
\* list returned null.
DequeueEmptyWitness ==
    /\ Len(appended) >= 1
    /\ popped = appended
    /\ queue = <<>>
    /\ ret = [op |-> "dequeue", val |-> NoItem, threw |-> FALSE]

\* C18: after n appends and m pops of an item took effect on the initially
\* empty list, in any interleaving, length() returns n - m, and it changes
\* nothing of the list.
QueueLength ==
    [][\A c \in Clients :
         (ret'.op = "length" /\ LengthCall(c)) =>
             /\ ret'.val = Len(appended) - Len(popped)
             /\ Len(popped) <= Len(appended)
             /\ UNCHANGED queueVars]_vars

\* C18 witness: two enqueues and one pop, and length() returned 1.
QueueLengthWitness ==
    /\ Len(appended) = 2
    /\ Len(popped) = 1
    /\ ret = [op |-> "length", val |-> 1, threw |-> FALSE]

\* the clients of the blocking scenario: two consumers that can be blocked at
\* once, and a producer
Consumers == 1..(NumClients + 1)

BlockingInit ==
    /\ clock = 0
    /\ LimiterUnused
    /\ pc = [c \in Consumers |-> "idle"]
    /\ now = [c \in Consumers |-> 0]
    /\ ret = NoRet
    /\ queuedRequest = [c \in Consumers |-> NoItem]
    /\ QueueEmpty
    /\ BreakerUnused
    /\ SystemUnused

BlockingNext ==
    \/ \E c \in Consumers, requestData \in Payloads : EnqueueCall(c, requestData)
    \/ \E c \in Consumers : EnqueueRpush(c)
    \/ \E c \in Consumers, timeout \in BlockTimeouts : BlockDequeueCall(c, timeout)
    \/ \E c \in Consumers : BlockDequeueReturn(c)
    \/ \E c \in Consumers : BlockDequeueTimeout(c)
    \/ Tick(1000, MaxQueueTicks)

SpecBlocking == BlockingInit /\ [][BlockingNext]_vars

\* c is blocked in a blockDequeue(T) with T > 0
BlockedWithTimeout(c) ==
    /\ pc[c] = "blocked"
    /\ waiting[WaiterOf(c)].timeout > 0

\* the step is the RPUSH of some client's enqueue
RpushStep == ret'.op = "enqueue" /\ \E e \in Consumers : EnqueueRpush(e)

\* the blocked client c is handed the item this RPUSH appends, and the item is
\* not in the list afterwards
HandedPushed(c) ==
    /\ pc'[c] = "unblocked"
    /\ queuedRequest'[c].enq = ret'.val
    /\ queue' = <<>>
    /\ popped' = Append(popped, ret'.val)

\* what a blocked call does at its end: with an item, it returns the item it was
\* handed, which is not in the list; without, it returns null, nothing thrown,
\* not before T seconds after it blocked, and the list is as before
BlockedCallEnds ==
    \A c \in Consumers :
       /\ (pc[c] = "unblocked" /\ ret'.op = "blockDequeue" /\ BlockDequeueReturn(c)) =>
             /\ ret' = [op |-> "blockDequeue", val |-> queuedRequest[c], threw |-> FALSE]
             /\ \A i \in 1..Len(queue') : queue'[i].enq # queuedRequest[c].enq
       /\ (BlockedWithTimeout(c) /\ ret'.op = "blockDequeue" /\ BlockDequeueTimeout(c)) =>
             /\ ret' = [op |-> "blockDequeue", val |-> NoItem, threw |-> FALSE]
             /\ clock >= waiting[WaiterOf(c)].since + waiting[WaiterOf(c)].timeout * 1000
             /\ UNCHANGED <<queue, appended, popped>>

\* C19 as claimed: a blockDequeue(T), T > 0, blocked on the empty list is handed
\* the item of the next enqueue that takes effect, which is then not in the
\* list; otherwise it returns null, nothing thrown, not before T seconds have
\* elapsed, and leaves the list unchanged.
BlockDequeueNextEnqueue ==
    [][/\ \A c \in Consumers :
            BlockedWithTimeout(c) => (queue = <<>> /\ (RpushStep => HandedPushed(c)))
       /\ BlockedCallEnds]_vars

\* C19 amended: ... the call that has been blocked longest is handed the item
\* of the next enqueue that takes effect; a call blocked behind it stays
\* blocked ...
BlockDequeueLongestBlocked ==
    [][/\ \A c \in Consumers :
            BlockedWithTimeout(c) =>
                /\ queue = <<>>
                /\ (RpushStep /\ Head(waiting).task = c) => HandedPushed(c)
                /\ (RpushStep /\ Head(waiting).task # c) =>
                       (pc'[c] = "blocked" /\ queuedRequest'[c] = NoItem)
       /\ BlockedCallEnds]_vars

\* C19 witness: of two calls blocked with a timeout, the one blocked longest
\* has been handed the item of the enqueue that followed, and the other is
\* still blocked.
BlockDequeueWitness ==
    \E c, d \in Consumers :
       /\ pc[c] = "unblocked"
       /\ queuedRequest[c].enq = appended[Len(appended)]
       /\ BlockedWithTimeout(d)
       /\ queue = <<>>

\* C20: every stored item, every item handed to a blocked consumer and every
\* item a pop returned carries as id the identifier its enqueue generated and
\* returned, whatever fields the payload holds.
QueueAssignedId ==
    /\ \A i \in 1..Len(queue) : queue[i].id = queue[i].enq
    /\ \A c \in Clients : pc[c] = "unblocked" => queuedRequest[c].id = queuedRequest[c].enq
    /\ (ret.op \in {"dequeue", "blockDequeue"} /\ ~ret.threw /\ ret.val # NoItem) =>
           ret.val.id = ret.val.enq

(***************************************************************************)
(* CircuitBreaker                                                          *)
(***************************************************************************)
\* resetTimeout of the breaker under test: new CircuitBreaker(3, 100, 2)
TestResetTimeout == 100

\* new Error('CircuitBreaker: Circuit is OPEN')
CircuitOpenMessage == "CircuitBreaker: Circuit is OPEN"

\* messages of the errors an operation given to fire throws: the mock backend's
\* 500, and the 503 body this proxy itself answers when it is the backend
OperationErrors ==
    {"Backend service responded with 500: Internal Server Error (Mock DB)",
     "Backend service responded with 503: Service temporarily unavailable. Circuit is OPEN."}

\* fire, lines 19-27, with >= for >
FireGateInclusive(br, ms, timeout) ==
    IF br.state = "OPEN"
    THEN IF ms - br.lastFailureTime >= timeout
         THEN [breaker |-> [br EXCEPT !.state = "HALF_OPEN", !.successes = 0],
               rejected |-> FALSE]
         ELSE [breaker |-> br, rejected |-> TRUE]
    ELSE [breaker |-> br, rejected |-> FALSE]

\* fire, lines 19-27, without the reset of successes
FireGateKeepsSuccesses(br, ms, timeout) ==
    IF br.state = "OPEN"
    THEN IF ms - br.lastFailureTime > timeout
         THEN [breaker |-> [br EXCEPT !.state = "HALF_OPEN"], rejected |-> FALSE]
         ELSE [breaker |-> br, rejected |-> TRUE]
    ELSE [breaker |-> br, rejected |-> FALSE]

\* fire, lines 19-27: the breaker after the check of OPEN, and whether the call
\* is rejected there
FireGate(br, ms, timeout) ==
    IF br.state = "OPEN"
    THEN IF ms - br.lastFailureTime > timeout
         THEN [breaker |-> [br EXCEPT !.state = "HALF_OPEN", !.successes = 0],
               rejected |-> FALSE]
         ELSE [breaker |-> br, rejected |-> TRUE]
    ELSE [breaker |-> br, rejected |-> FALSE]

\* success(state) closing one success late
BreakerSuccessLate(br, state, sThreshold) ==
    IF state = "CLOSED"
    THEN [br EXCEPT !.failures = 0]
    ELSE IF state = "HALF_OPEN"
         THEN IF br.successes + 1 > sThreshold
              THEN [br EXCEPT !.state = "CLOSED", !.failures = 0, !.successes = 0]
              ELSE [br EXCEPT !.successes = br.successes + 1]
         ELSE br

\* success(state), lines 39-51
BreakerSuccess(br, state, sThreshold) ==
    IF state = "CLOSED"
    THEN [br EXCEPT !.failures = 0]
    ELSE IF state = "HALF_OPEN"
         THEN IF br.successes + 1 >= sThreshold
              THEN [br EXCEPT !.state = "CLOSED", !.failures = 0, !.successes = 0]
              ELSE [br EXCEPT !.successes = br.successes + 1]
         ELSE br

\* fail(state) opening one failure late
BreakerFailLate(br, state, ms, fThreshold) ==
    IF state = "HALF_OPEN"
    THEN [br EXCEPT !.state = "OPEN", !.failures = 0, !.lastFailureTime = ms]
    ELSE IF br.failures + 1 > fThreshold
         THEN [br EXCEPT !.failures = br.failures + 1, !.state = "OPEN",
                         !.lastFailureTime = ms]
         ELSE [br EXCEPT !.failures = br.failures + 1]

\* fail(state) that keeps the old lastFailureTime when HALF_OPEN fails
BreakerFailKeepsTime(br, state, ms, fThreshold) ==
    IF state = "HALF_OPEN"
    THEN [br EXCEPT !.state = "OPEN", !.failures = 0]
    ELSE IF br.failures + 1 >= fThreshold
         THEN [br EXCEPT !.failures = br.failures + 1, !.state = "OPEN",
                         !.lastFailureTime = ms]
         ELSE [br EXCEPT !.failures = br.failures + 1]

\* fail(state), lines 53-67; the else branch is taken for CLOSED and for OPEN
BreakerFail(br, state, ms, fThreshold) ==
    IF state = "HALF_OPEN"
    THEN [br EXCEPT !.state = "OPEN", !.failures = 0, !.lastFailureTime = ms]
    ELSE IF br.failures + 1 >= fThreshold
         THEN [br EXCEPT !.failures = br.failures + 1, !.state = "OPEN",
                         !.lastFailureTime = ms]
         ELSE [br EXCEPT !.failures = br.failures + 1]

\* the process whose breaker the breaker specification exercises
TestProcess == "index"

\* history: what the breaker did last, the state it was in before, and whether
\* the call was one that had moved it to HALF_OPEN
Event(kind, from, wasProbe) == [kind |-> kind, from |-> from, probe |-> wasProbe]

\* fire, lines 18-30: the check of OPEN; then either the rejection or the call of
\* operation(), whose result is awaited
Fire(b, c) ==
    /\ pc[c] = "idle"
    /\ LET g == FireGate(breaker[b], clock, resetTimeout)
           opens == breaker[b].state = "OPEN" /\ ~g.rejected
       IN  /\ IF g.rejected
              THEN /\ ret' = [op |-> "fire", val |-> CircuitOpenMessage, threw |-> TRUE]
                   /\ UNCHANGED <<pc, breaker, probe>>
              ELSE /\ breaker' = [breaker EXCEPT ![b] = g.breaker]
                   /\ pc' = [pc EXCEPT ![c] = "operation"]
                   /\ probe' = [probe EXCEPT ![b] = IF opens THEN @ \cup {c} ELSE @]
                   /\ UNCHANGED ret
           /\ last' = [last EXCEPT ![b] =
                         Event(IF g.rejected THEN "reject" ELSE "invoke",
                               breaker[b].state, opens)]
    /\ UNCHANGED <<systemVars, clock, limiterVars, queueVars, now, queuedRequest,
                   failureThreshold, resetTimeout, successThreshold, streak>>

\* fire, lines 30-32: operation() resolved; this.success(this.state); return result
OperationSucceeds(b, c) ==
    /\ pc[c] = "operation"
    /\ breaker' = [breaker EXCEPT ![b] = BreakerSuccess(@, @.state, successThreshold)]
    /\ streak' = [streak EXCEPT ![b] = IF breaker[b].state = "OPEN" THEN @ ELSE 0]
    /\ probe' = [probe EXCEPT ![b] = @ \ {c}]
    /\ last' = [last EXCEPT ![b] = Event("success", breaker[b].state, c \in probe[b])]
    /\ ret' = [op |-> "fire", val |-> "result", threw |-> FALSE]
    /\ pc' = [pc EXCEPT ![c] = "idle"]
    /\ UNCHANGED <<systemVars, clock, limiterVars, queueVars, now, queuedRequest,
                   failureThreshold, resetTimeout, successThreshold>>

\* fire, lines 33-36: operation() rejected; this.fail(this.state); throw error
OperationFails(b, c, message) ==
    /\ pc[c] = "operation"
    /\ breaker' = [breaker EXCEPT ![b] = BreakerFail(@, @.state, clock, failureThreshold)]
    /\ streak' = [streak EXCEPT ![b] = IF breaker[b].state = "CLOSED" THEN @ + 1 ELSE 0]
    /\ probe' = [probe EXCEPT ![b] = @ \ {c}]
    /\ last' = [last EXCEPT ![b] = Event("failure", breaker[b].state, c \in probe[b])]
    /\ ret' = [op |-> "fire", val |-> message, threw |-> TRUE]
    /\ pc' = [pc EXCEPT ![c] = "idle"]
    /\ UNCHANGED <<systemVars, clock, limiterVars, queueVars, now, queuedRequest,
                   failureThreshold, resetTimeout, successThreshold>>

BreakerInit ==
    /\ clock = 0
    /\ LimiterUnused
    /\ ClientsIdle
    /\ QueueEmpty
    /\ failureThreshold \in 1..MaxThreshold
    /\ resetTimeout = TestResetTimeout
    /\ successThreshold \in 1..MaxThreshold
    /\ breaker = [b \in {TestProcess} |-> NewBreaker]
    /\ streak = [b \in {TestProcess} |-> 0]
    /\ probe = [b \in {TestProcess} |-> {}]
    /\ last = [b \in {TestProcess} |-> Event("none", "CLOSED", FALSE)]
    /\ SystemUnused

BreakerNext ==
    \/ \E c \in Clients : Fire(TestProcess, c)
    \/ \E c \in Clients : OperationSucceeds(TestProcess, c)
    \/ \E c \in Clients, message \in OperationErrors : OperationFails(TestProcess, c, message)
    \/ Tick(50, MaxBreakerTicks)

SpecBreaker == BreakerInit /\ [][BreakerNext]_vars

(***************************************************************************)
(* Claims about the CircuitBreaker                                         *)
(***************************************************************************)
Br == breaker[TestProcess]
BrNext == breaker'[TestProcess]
Rejection == [op |-> "fire", val |-> CircuitOpenMessage, threw |-> TRUE]

\* C5: while CLOSED, a completed success leaves the breaker CLOSED with failure
\* count 0, and the breaker becomes OPEN exactly at the step where the failures
\* completed in CLOSED since the last success reach failureThreshold.
BreakerOpening ==
    [][Br.state = "CLOSED" =>
         /\ BrNext.state \in {"CLOSED", "OPEN"}
         /\ BrNext.state = "OPEN" <=>
                (streak'[TestProcess] = streak[TestProcess] + 1
                    /\ streak'[TestProcess] = failureThreshold)
         /\ (\E c \in Clients : OperationSucceeds(TestProcess, c)) =>
                (BrNext.state = "CLOSED" /\ BrNext.failures = 0)]_vars

\* C5 witness: a success at failure count 1 reset the count, and later the
\* second of two consecutive failures in CLOSED opened the breaker.
BreakerOpeningWitness ==
    /\ failureThreshold = 2
    /\ Br.state = "OPEN"
    /\ last[TestProcess].kind = "failure"
    /\ last[TestProcess].from = "CLOSED"
    /\ streak[TestProcess] = 2
    /\ clock > 0
    /\ Br.lastFailureTime = clock

\* C6: a fire call made while OPEN with now - lastFailureTime <= resetTimeout
\* throws the circuit-open error, does not invoke the operation and changes
\* nothing of the breaker.
RejectWhileOpen ==
    [][\A c \in Clients :
         (Fire(TestProcess, c) /\ Br.state = "OPEN"
            /\ clock - Br.lastFailureTime <= resetTimeout) =>
                (ret' = Rejection /\ pc'[c] = "idle" /\ BrNext = Br)]_vars

\* C6 witness: a call was rejected exactly resetTimeout after the last failure.
RejectWhileOpenWitness ==
    /\ Br.state = "OPEN"
    /\ last[TestProcess].kind = "reject"
    /\ ret = Rejection
    /\ clock - Br.lastFailureTime = resetTimeout
    /\ \A c \in Clients : pc[c] = "idle"

ProbeGate ==
    \A c \in Clients :
        (Fire(TestProcess, c) /\ Br.state = "OPEN"
           /\ clock - Br.lastFailureTime > resetTimeout) =>
               (BrNext.state = "HALF_OPEN" /\ BrNext.successes = 0
                  /\ pc'[c] = "operation")

\* C7 as claimed: the call that finds OPEN after resetTimeout moves the breaker to
\* HALF_OPEN with success count 0 and invokes the operation, and whenever that
\* operation succeeds with the count still below successThreshold the breaker
\* is HALF_OPEN afterwards.
RecoveryProbeAsClaimed ==
    [][/\ ProbeGate
       /\ \A c \in Clients :
            (OperationSucceeds(TestProcess, c) /\ c \in probe[TestProcess]
               /\ Br.successes + 1 < successThreshold) =>
                   BrNext.state = "HALF_OPEN"]_vars

\* C7 amended: ... and when that operation succeeds while the breaker is still
\* HALF_OPEN, with the count still below successThreshold, the breaker is
\* HALF_OPEN afterwards.
RecoveryProbe ==
    [][/\ ProbeGate
       /\ \A c \in Clients :
            (OperationSucceeds(TestProcess, c) /\ c \in probe[TestProcess]
               /\ Br.state = "HALF_OPEN"
               /\ Br.successes + 1 < successThreshold) =>
                   (BrNext.state = "HALF_OPEN"
                      /\ BrNext.successes = Br.successes + 1)]_vars

\* C7 witness: the probing call succeeded in HALF_OPEN below successThreshold.
RecoveryProbeWitness ==
    /\ Br.state = "HALF_OPEN"
    /\ Br.successes = 1
    /\ last[TestProcess] = Event("success", "HALF_OPEN", TRUE)

\* C8: a success completing in HALF_OPEN counts; the breaker stays HALF_OPEN
\* below successThreshold and is CLOSED with both counts 0 when the count
\* reaches it.
HalfOpenSuccess ==
    [][\A c \in Clients :
         (OperationSucceeds(TestProcess, c) /\ Br.state = "HALF_OPEN") =>
             IF Br.successes + 1 < successThreshold
             THEN BrNext = [Br EXCEPT !.successes = Br.successes + 1]
             ELSE /\ Br.successes + 1 = successThreshold
                  /\ BrNext.state = "CLOSED"
                  /\ BrNext.failures = 0
                  /\ BrNext.successes = 0]_vars

\* C8 witness: the second success in HALF_OPEN closed the breaker.
HalfOpenSuccessWitness ==
    /\ successThreshold = 2
    /\ Br.state = "CLOSED"
    /\ last[TestProcess].kind = "success"
    /\ last[TestProcess].from = "HALF_OPEN"

\* C9: a failure completing in HALF_OPEN opens the breaker, with failure count 0
\* and lastFailureTime now; the breaker then stays OPEN, lastFailureTime never
\* moving back, until a fire call made more than resetTimeout later, and the
\* fire calls before that are rejected.
HalfOpenFailure ==
    [][/\ \A c \in Clients, m \in OperationErrors :
            (OperationFails(TestProcess, c, m) /\ Br.state = "HALF_OPEN") =>
                BrNext = [Br EXCEPT !.state = "OPEN", !.failures = 0,
                                    !.lastFailureTime = clock]
       /\ (Br.state = "OPEN" /\ BrNext.state = "OPEN") =>
            BrNext.lastFailureTime >= Br.lastFailureTime
       /\ (Br.state = "OPEN" /\ BrNext.state # "OPEN") =>
            /\ clock - Br.lastFailureTime > resetTimeout
            /\ \E c \in Clients : Fire(TestProcess, c)
       /\ \A c \in Clients :
            (Fire(TestProcess, c) /\ last[TestProcess].from = "HALF_OPEN"
               /\ last[TestProcess].kind = "failure"
               /\ clock - Br.lastFailureTime <= resetTimeout) =>
                   (ret' = Rejection /\ pc'[c] = "idle")]_vars

\* C9 witness: after one counted success a failure in HALF_OPEN reopened the
\* breaker.
HalfOpenFailureWitness ==
    /\ Br.state = "OPEN"
    /\ Br.failures = 0
    /\ Br.successes = 1
    /\ Br.lastFailureTime = clock
    /\ last[TestProcess] = Event("failure", "HALF_OPEN", FALSE)

\* C25: a failure that completes while the breaker is OPEN leaves the failure
\* count and lastFailureTime as they are, and outside CLOSED the failure count
\* changes only by a reset to 0.
FailuresOnlyInClosed ==
    [][\A c \in Clients, message \in OperationErrors :
          OperationFails(TestProcess, c, message) =>
              /\ Br.state = "OPEN" =>
                   /\ BrNext.failures = Br.failures
                   /\ BrNext.lastFailureTime = Br.lastFailureTime
              /\ Br.state # "CLOSED" => BrNext.failures \in {Br.failures, 0}]_vars

\* the counts a breaker in state CLOSED or HALF_OPEN may hold
CountersInRange(br) ==
    /\ br.state = "CLOSED" => (br.failures < failureThreshold /\ br.successes = 0)
    /\ br.state = "HALF_OPEN" => br.successes < successThreshold

\* C31: with both thresholds at least 1 and fire calls overlapping in any
\* order, a CLOSED breaker has failure count below failureThreshold and success
\* count 0, a HALF_OPEN breaker has success count below successThreshold, and
\* every step into CLOSED is a step out of HALF_OPEN.
BreakerCounters ==
    /\ [](failureThreshold >= 1 /\ successThreshold >= 1 /\ CountersInRange(Br))
    /\ [][(BrNext.state = "CLOSED" /\ Br.state # "CLOSED") =>
             Br.state = "HALF_OPEN"]_vars

\* C31 witness: the success that reached successThreshold closed the breaker
\* from HALF_OPEN while another fire call, made in HALF_OPEN, is still awaiting
\* its operation.
BreakerCountersWitness ==
    /\ successThreshold = 2
    /\ Br = [NewBreaker EXCEPT !.lastFailureTime = Br.lastFailureTime]
    /\ Br.lastFailureTime > 0
    /\ last[TestProcess] = Event("success", "HALF_OPEN", FALSE)
    /\ \E c \in Clients : pc[c] = "operation"

(***************************************************************************)
(* The system: the coordinator's POST /login handler (index.js) and the    *)
(* worker's processQueue loop (worker.js), on one bucket and one queue,    *)
(* each process with a CircuitBreaker of its own.                          *)
(*                                                                         *)
(* A clock step is one second.  The worker's delay of WORKER_DELAY_MS is   *)
(* shorter than that: its timer may fire in any state.  A uuid is an       *)
(* identifier held nowhere else in the state.  The histories of the        *)
(* component specifications (batch, appended, popped, streak, probe,       *)
(* last, ret) are not kept here.                                           *)
(***************************************************************************)
Requests == 1..NumRequests

\* the task running processQueue
WorkerTask == 0

Tasks == {WorkerTask} \cup Requests

\* the processes, each with its own `circuitBreaker`
Processes == {"index", "worker"}

\* bucket parameters of the system: capacity 1, no refill or one token a second
SystemFillRates == {<<0, 1>>, <<1, 1>>}

ItemIds(items) == {x.id : x \in {y \in items : y # NoItem}}

\* the identifiers held anywhere in the state
UsedIds ==
    {requestId[r] : r \in Requests}
        \cup ItemIds({queue[i] : i \in 1..Len(queue)})
        \cup ItemIds({queuedRequest[t] : t \in Tasks})
        \cup ItemIds({dequeued})

\* uuidv4(): an identifier not in use
Uuidv4 ==
    CHOOSE n \in 1..(2 * NumRequests + 2) :
        n \notin UsedIds /\ \A m \in 1..(n - 1) : m \in UsedIds

NoCalls == [tryConsume |-> 0, enqueue |-> 0, rpush |-> 0, fire |-> 0, backend |-> 0]

NoResponse == [status |-> 0, message |-> "none", requestId |-> 0]

\* index.js, lines 61-66: the work item of request r
WorkItem(r) ==
    [requestId |-> requestId[r], method |-> "POST", url |-> "/login",
     headers |-> r, body |-> r]

\* the work item of worker.js with the queue's id in the place of requestId
WorkOfQueueId(item) ==
    [requestId |-> item.id, method |-> item.method, url |-> item.url,
     headers |-> item.headers, body |-> item.body]

\* worker.js, lines 36, 46 and 81: { requestId, method, url, headers, body }
WorkOf(item) ==
    [requestId |-> item.requestId, method |-> item.method, url |-> item.url,
     headers |-> item.headers, body |-> item.body]

\* the phrases index.js and worker.js look for that an error message contains
Phrases(message) ==
    CASE message = CircuitOpenMessage -> {"Circuit is OPEN"}
      [] message = "Backend service responded with 500: Internal Server Error (Mock DB)" -> {}
      [] message = "Backend service responded with 503: Service temporarily unavailable. Circuit is OPEN."
            -> {"Service temporarily unavailable", "Circuit is OPEN"}

\* error.message.includes(phrase)
Includes(message, phrase) == phrase \in Phrases(message)

\* index.js, lines 98-104: the response to an error thrown by fire
ErrorResponse(message) ==
    IF Includes(message, "Circuit is OPEN")
    THEN [status |-> 503, message |-> "Service temporarily unavailable. Circuit is OPEN.",
          requestId |-> 0]
    ELSE IF Includes(message, "Service temporarily unavailable")
         THEN [status |-> 503, message |-> "Service temporarily unavailable. Try again later.",
               requestId |-> 0]
         ELSE [status |-> 500, message |-> "Internal Server Error", requestId |-> 0]

\* the test of index.js line 58 and worker.js line 42, inverted
DeniedInverted(t) == tokenConsumed[t]

\* if (!tokenConsumed)
Denied(t) == ~tokenConsumed[t]

\* what the component histories hold in every state of the system
HistoryUnused ==
    /\ ret = NoRet
    /\ batch = [k |-> capacity, n |-> 0, admitted |-> 0, conc |-> 0]
    /\ nextId = 1
    /\ appended = <<>>
    /\ popped = <<>>
    /\ streak = [b \in Processes |-> 0]
    /\ probe = [b \in Processes |-> {}]
    /\ last = [b \in Processes |-> Event("none", "CLOSED", FALSE)]

history == <<ret, batch, nextId, appended, popped, streak, probe, last>>
config == <<capacity, fillRate, failureThreshold, resetTimeout, successThreshold>>

\* index.js, lines 50-56, and tryConsume, line 49: the request is received, its
\* id generated, tryConsume called
LoginRequest(r) ==
    /\ pc[r] = "idle"
    /\ requestId' = [requestId EXCEPT ![r] = Uuidv4]
    /\ now' = [now EXCEPT ![r] = NowSeconds(clock)]
    /\ calls' = [calls EXCEPT ![r].tryConsume = @ + 1]
    /\ pc' = [pc EXCEPT ![r] = "tryConsume"]
    /\ UNCHANGED <<clock, config, history, bucket, queue, waiting, queuedRequest,
                   breaker, tokenConsumed, dequeued, response>>

\* tryConsume, lines 51-59, called by a handler or the worker: the store
\* evaluates the script
ConsumeEval(t) ==
    /\ pc[t] = "tryConsume"
    /\ LET out == ConsumeScript(bucket, capacity, fillRate, now[t])
       IN  /\ bucket' = out.bucket
           /\ tokenConsumed' = [tokenConsumed EXCEPT ![t] = (out.result = 1)]
    /\ now' = [now EXCEPT ![t] = 0]
    /\ pc' = [pc EXCEPT ![t] = "consumed"]
    /\ UNCHANGED <<clock, config, history, queue, waiting, queuedRequest,
                   breaker, requestId, dequeued, response, calls>>

\* tryConsume, lines 60-66: the store call fails; false
ConsumeError(t) ==
    /\ pc[t] = "tryConsume"
    /\ tokenConsumed' = [tokenConsumed EXCEPT ![t] = FALSE]
    /\ now' = [now EXCEPT ![t] = 0]
    /\ pc' = [pc EXCEPT ![t] = "consumed"]
    /\ UNCHANGED <<clock, config, history, bucket, queue, waiting, queuedRequest,
                   breaker, requestId, dequeued, response, calls>>

\* enqueue, lines 27-28, called by task t with requestData; made is the history
\* of the calls made before this one
Enqueue(t, requestData, made) ==
    /\ queuedRequest' = [queuedRequest EXCEPT ![t] = QueuedRequest(Uuidv4, clock, requestData)]
    /\ calls' = [made EXCEPT ![t].enqueue = @ + 1]
    /\ pc' = [pc EXCEPT ![t] = "rpush"]

\* index.js, lines 58-69: denied; enqueue is called with the work item
LoginEnqueue(r) ==
    /\ r \in Requests
    /\ pc[r] = "consumed"
    /\ Denied(r)
    /\ Enqueue(r, WorkItem(r), calls)
    /\ UNCHANGED <<clock, config, history, bucket, now, queue, waiting,
                   breaker, requestId, tokenConsumed, dequeued, response>>

\* enqueue, lines 30-32, called by a handler or the worker: the store appends
\* the item and hands the head of the list to the blocked BLPOP client, if any
RpushStore(t) ==
    /\ pc[t] = "rpush"
    /\ LET pushed == Rpush(queue, queuedRequest[t])
       IN  IF waiting = <<>>
           THEN /\ queue' = pushed
                /\ pc' = [pc EXCEPT ![t] = "pushed"]
                /\ queuedRequest' = [queuedRequest EXCEPT ![t] = NoItem]
                /\ UNCHANGED waiting
           ELSE LET w == Head(waiting).task
                IN  /\ queue' = LpopRest(pushed)
                    /\ waiting' = Tail(waiting)
                    /\ pc' = [pc EXCEPT ![t] = "pushed", ![w] = "unblocked"]
                    /\ queuedRequest' = [queuedRequest EXCEPT ![t] = NoItem,
                                                              ![w] = Head(pushed)]
    /\ calls' = [calls EXCEPT ![t].rpush = @ + 1]
    /\ UNCHANGED <<clock, config, bucket, now, breaker, requestId,
                   tokenConsumed, dequeued, response>>

\* enqueue, lines 30-32, with no record kept of the order of the appends
RpushEval(t) ==
    /\ RpushStore(t)
    /\ UNCHANGED history

\* enqueue, lines 30-32, called by the handler of r: the first append of the
\* work item of r is recorded in `appended`
RpushFirst(r) ==
    /\ r \in Requests
    /\ RpushStore(r)
    /\ appended' = Append(appended, requestId[r])
    /\ UNCHANGED <<ret, batch, nextId, popped, streak, probe, last>>

\* enqueue, lines 33-36, called by the handler of r: the store call fails and the
\* error is thrown; index.js line 61 is in no try block, the handler's promise
\* is rejected and the handler sends nothing
LoginEnqueueThrows(r) ==
    /\ r \in Requests
    /\ pc[r] = "rpush"
    /\ queuedRequest' = [queuedRequest EXCEPT ![r] = NoItem]
    /\ pc' = [pc EXCEPT ![r] = "threw"]
    /\ UNCHANGED <<clock, config, history, bucket, now, queue, waiting, breaker,
                   requestId, tokenConsumed, dequeued, response, calls>>

\* index.js, lines 1 and 50: what express does with the rejected promise of the
\* async handler depends on its version, which the repository does not state:
\* express 4 ignores the promise and the request is never answered; express 5
\* forwards the error to its default error handler, which answers 500
LoginUnhandled(r, forwarded) ==
    /\ r \in Requests
    /\ pc[r] = "threw"
    /\ IF forwarded
       THEN /\ response' = [response EXCEPT ![r] =
                              [status |-> 500, message |-> "Internal Server Error",
                               requestId |-> 0]]
            /\ pc' = [pc EXCEPT ![r] = "errored"]
       ELSE /\ pc' = [pc EXCEPT ![r] = "unanswered"]
            /\ UNCHANGED response
    /\ UNCHANGED <<clock, config, history, bucket, now, queue, waiting, queuedRequest,
                   breaker, requestId, tokenConsumed, dequeued, calls>>

\* index.js, line 70: enqueue returned; 202 with the request id
LoginQueued(r) ==
    /\ r \in Requests
    /\ pc[r] = "pushed"
    /\ response' = [response EXCEPT ![r] =
                      [status |-> 202, message |-> "Request queued. Please wait.",
                       requestId |-> requestId[r]]]
    /\ pc' = [pc EXCEPT ![r] = "done"]
    /\ UNCHANGED <<clock, config, history, bucket, now, queue, waiting, queuedRequest,
                   breaker, requestId, tokenConsumed, dequeued, calls>>

\* index.js, lines 74-91 and 96-99, and fire, lines 19-30: admitted; fire either
\* rejects, which the catch block answers, or calls fetch
LoginFire(r) ==
    /\ r \in Requests
    /\ pc[r] = "consumed"
    /\ ~Denied(r)
    /\ LET g == FireGate(breaker["index"], clock, resetTimeout)
       IN  IF g.rejected
           THEN /\ response' = [response EXCEPT ![r] = ErrorResponse(CircuitOpenMessage)]
                /\ pc' = [pc EXCEPT ![r] = "done"]
                /\ calls' = [calls EXCEPT ![r].fire = @ + 1]
                /\ UNCHANGED breaker
           ELSE /\ breaker' = [breaker EXCEPT !["index"] = g.breaker]
                /\ pc' = [pc EXCEPT ![r] = "operation"]
                /\ calls' = [calls EXCEPT ![r].fire = @ + 1, ![r].backend = @ + 1]
                /\ UNCHANGED response
    /\ UNCHANGED <<clock, config, history, bucket, now, queue, waiting, queuedRequest,
                   requestId, tokenConsumed, dequeued>>

\* index.js, lines 90-94, and fire, lines 30-32: the backend answered ok
LoginBackendOk(r) ==
    /\ r \in Requests
    /\ pc[r] = "operation"
    /\ breaker' = [breaker EXCEPT !["index"] = BreakerSuccess(@, @.state, successThreshold)]
    /\ response' = [response EXCEPT ![r] =
                      [status |-> 200, message |-> "Login successful", requestId |-> 0]]
    /\ pc' = [pc EXCEPT ![r] = "done"]
    /\ UNCHANGED <<clock, config, history, bucket, now, queue, waiting, queuedRequest,
                   requestId, tokenConsumed, dequeued, calls>>

\* index.js, lines 85-88 and 96-104, and fire, lines 33-36: the operation threw
LoginBackendFail(r, message) ==
    /\ r \in Requests
    /\ pc[r] = "operation"
    /\ breaker' = [breaker EXCEPT !["index"] = BreakerFail(@, @.state, clock, failureThreshold)]
    /\ response' = [response EXCEPT ![r] = ErrorResponse(message)]
    /\ pc' = [pc EXCEPT ![r] = "done"]
    /\ UNCHANGED <<clock, config, history, bucket, now, queue, waiting, queuedRequest,
                   requestId, tokenConsumed, dequeued, calls>>

\* worker.js, line 33, and blockDequeue, line 66: BLPOP with a timeout of one
\* second pops the head at once, or blocks the worker's client
WorkerBlockDequeue ==
    /\ pc[WorkerTask] = "loop"
    /\ calls' = [calls EXCEPT ![WorkerTask] = NoCalls]
    /\ IF queue = <<>>
       THEN /\ waiting' = Append(waiting, Waiter(WorkerTask, 1))
            /\ pc' = [pc EXCEPT ![WorkerTask] = "blocked"]
            /\ UNCHANGED <<queue, queuedRequest>>
       ELSE /\ queue' = LpopRest(queue)
            /\ queuedRequest' = [queuedRequest EXCEPT ![WorkerTask] = Head(queue)]
            /\ pc' = [pc EXCEPT ![WorkerTask] = "unblocked"]
            /\ UNCHANGED waiting
    /\ UNCHANGED <<clock, config, history, bucket, now, breaker, requestId,
                   tokenConsumed, dequeued, response>>

\* blockDequeue, line 72, and worker.js, lines 35 and 89: BLPOP timed out, null;
\* the iteration ends
WorkerTimeout ==
    /\ pc[WorkerTask] = "blocked"
    /\ clock >= waiting[WaiterOf(WorkerTask)].deadline
    /\ waiting' = WithoutWaiter(WorkerTask)
    /\ pc' = [pc EXCEPT ![WorkerTask] = "delay"]
    /\ UNCHANGED <<clock, config, history, bucket, now, queue, queuedRequest, breaker,
                   systemVars>>

\* blockDequeue, lines 73-76, and worker.js, lines 86-89: the blocking connection
\* fails; the error is thrown to the outer catch block
WorkerDequeueThrows ==
    /\ pc[WorkerTask] = "blocked"
    /\ waiting' = WithoutWaiter(WorkerTask)
    /\ pc' = [pc EXCEPT ![WorkerTask] = "delay"]
    /\ UNCHANGED <<clock, config, history, bucket, now, queue, queuedRequest, breaker,
                   systemVars>>

\* blockDequeue, lines 67-71, and worker.js, lines 33-40: the reply of BLPOP
\* arrives with an item; tryConsume is called
WorkerProcess ==
    /\ pc[WorkerTask] = "unblocked"
    /\ dequeued' = queuedRequest[WorkerTask]
    /\ queuedRequest' = [queuedRequest EXCEPT ![WorkerTask] = NoItem]
    /\ now' = [now EXCEPT ![WorkerTask] = NowSeconds(clock)]
    /\ calls' = [calls EXCEPT ![WorkerTask].tryConsume = @ + 1]
    /\ pc' = [pc EXCEPT ![WorkerTask] = "tryConsume"]
    /\ UNCHANGED <<clock, config, history, bucket, queue, waiting, breaker, requestId,
                   tokenConsumed, response>>

\* worker.js, lines 42-46: no token; the work item is given to enqueue again
WorkerReenqueue ==
    /\ pc[WorkerTask] = "consumed"
    /\ Denied(WorkerTask)
    /\ Enqueue(WorkerTask, WorkOf(dequeued), calls)
    /\ UNCHANGED <<clock, config, history, bucket, now, queue, waiting,
                   breaker, requestId, tokenConsumed, dequeued, response>>

\* worker.js without the outer catch block: the error thrown by enqueue rejects
\* the promise of processQueue and the loop ends
WorkerEnqueueThrowsUncaught ==
    /\ pc[WorkerTask] = "rpush"
    /\ queuedRequest' = [queuedRequest EXCEPT ![WorkerTask] = NoItem]
    /\ dequeued' = NoItem
    /\ pc' = [pc EXCEPT ![WorkerTask] = "terminated"]
    /\ UNCHANGED <<clock, config, history, bucket, now, queue, waiting, breaker,
                   requestId, tokenConsumed, response, calls>>

\* enqueue, lines 33-36, called by the worker, and worker.js, lines 86-89: the
\* store call fails; the error is thrown to the outer catch block
WorkerEnqueueThrows ==
    /\ pc[WorkerTask] = "rpush"
    /\ queuedRequest' = [queuedRequest EXCEPT ![WorkerTask] = NoItem]
    /\ dequeued' = NoItem
    /\ pc' = [pc EXCEPT ![WorkerTask] = "delay"]
    /\ UNCHANGED <<clock, config, history, bucket, now, queue, waiting, breaker,
                   requestId, tokenConsumed, response, calls>>

\* worker.js, lines 46-49 and 81-89: enqueue returned; the iteration ends
WorkerRequeued ==
    /\ pc[WorkerTask] = "pushed"
    /\ dequeued' = NoItem
    /\ pc' = [pc EXCEPT ![WorkerTask] = "delay"]
    /\ UNCHANGED <<clock, config, history, bucket, now, queue, waiting, queuedRequest,
                   breaker, requestId, tokenConsumed, response, calls>>

\* worker.js, lines 53-67 and 75-81, and fire, lines 19-30: a token was consumed;
\* fire either rejects, and the catch block gives the work item to enqueue, or
\* calls fetch
WorkerFireCall ==
    /\ pc[WorkerTask] = "consumed"
    /\ ~Denied(WorkerTask)
    /\ LET g == FireGate(breaker["worker"], clock, resetTimeout)
       IN  IF g.rejected
           THEN /\ Includes(CircuitOpenMessage, "Circuit is OPEN")
                /\ Enqueue(WorkerTask, WorkOf(dequeued),
                           [calls EXCEPT ![WorkerTask].fire = @ + 1])
                /\ UNCHANGED <<breaker, dequeued>>
           ELSE /\ breaker' = [breaker EXCEPT !["worker"] = g.breaker]
                /\ pc' = [pc EXCEPT ![WorkerTask] = "operation"]
                /\ calls' = [calls EXCEPT ![WorkerTask].fire = @ + 1,
                                          ![WorkerTask].backend = @ + 1]
                /\ UNCHANGED <<queuedRequest, dequeued>>
    /\ UNCHANGED <<clock, config, bucket, now, queue, waiting,
                   requestId, tokenConsumed, response>>

\* worker.js, lines 53-67 and 75-81, with no record kept of the dispatches
WorkerFire ==
    /\ WorkerFireCall
    /\ UNCHANGED history

\* worker.js, lines 53-67 and 75-81: the first call of fetch for a work item
\* is recorded in `popped`
WorkerFireFirst ==
    /\ WorkerFireCall
    /\ popped' = IF pc'[WorkerTask] = "operation"
                    /\ \A i \in 1..Len(popped) : popped[i] # dequeued.requestId
                 THEN Append(popped, dequeued.requestId)
                 ELSE popped
    /\ UNCHANGED <<ret, batch, nextId, appended, streak, probe, last>>

\* worker.js, lines 66-69 and 89, and fire, lines 30-32: the backend answered ok
WorkerBackendOk ==
    /\ pc[WorkerTask] = "operation"
    /\ breaker' = [breaker EXCEPT !["worker"] = BreakerSuccess(@, @.state, successThreshold)]
    /\ dequeued' = NoItem
    /\ pc' = [pc EXCEPT ![WorkerTask] = "delay"]
    /\ UNCHANGED <<clock, config, history, bucket, now, queue, waiting, queuedRequest,
                   requestId, tokenConsumed, response, calls>>

\* worker.js, lines 61-64 and 75-84, and fire, lines 33-36: the operation threw;
\* the work item is given to enqueue again if the message says the circuit is
\* open, and dropped otherwise
WorkerBackendFail(message) ==
    /\ pc[WorkerTask] = "operation"
    /\ breaker' = [breaker EXCEPT !["worker"] = BreakerFail(@, @.state, clock, failureThreshold)]
    /\ IF Includes(message, "Circuit is OPEN")
       THEN /\ Enqueue(WorkerTask, WorkOf(dequeued), calls)
            /\ UNCHANGED dequeued
       ELSE /\ pc' = [pc EXCEPT ![WorkerTask] = "delay"]
            /\ dequeued' = NoItem
            /\ UNCHANGED <<queuedRequest, calls>>
    /\ UNCHANGED <<clock, config, history, bucket, now, queue, waiting,
                   requestId, tokenConsumed, response>>

\* worker.js, lines 48 and 89: the timer of WORKER_DELAY_MS fired; next iteration
WorkerDelay ==
    /\ pc[WorkerTask] = "delay"
    /\ pc' = [pc EXCEPT ![WorkerTask] = "loop"]
    /\ UNCHANGED <<clock, config, history, bucket, now, queue, waiting, queuedRequest,
                   breaker, systemVars>>

\* one second passes
SystemTick ==
    /\ clock + 1000 <= 1000 * MaxSystemTicks
    /\ clock' = clock + 1000
    /\ UNCHANGED <<config, history, bucket, pc, now, queue, waiting, queuedRequest,
                   breaker, systemVars>>

\* the last instant the clock of the system reaches
Horizon == 1000 * MaxSystemTicks

\* an instant seen from an origin of time one second later; instants before
\* floor are all read as floor
Earlier(t, step, floor) == IF t - step >= floor THEN t - step ELSE Min(t, floor)

\* a stored item seen from an origin of time one second later
EarlierItem(x) ==
    IF x = NoItem THEN x ELSE [x EXCEPT !.timestamp = Earlier(@, 1000, 0)]

\* Date.now() one second later.  Up to Horizon the clock advances.  From then
\* on the origin of time advances instead, and every instant the state holds
\* is one second earlier: the code only takes differences of instants.  A
\* lastRefillTime capacity seconds back or more refills the bucket fully, a
\* lastFailureTime more than resetTimeout back lets fire probe, and a BLPOP
\* deadline in the past has expired, whatever their distance, so older
\* instants are not told apart.  The `now` of a tryConsume call whose script
\* the store has not evaluated is kept exact: such a call ends within
\* Horizon.
Elapse ==
    /\ UNCHANGED <<config, history, pc, requestId, tokenConsumed, response, calls>>
    /\ IF clock + 1000 <= Horizon
       THEN /\ clock' = clock + 1000
            /\ UNCHANGED <<bucket, now, breaker, waiting, queue, queuedRequest, dequeued>>
       ELSE /\ \A t \in Tasks : pc[t] = "tryConsume" => now[t] >= 1
            /\ clock' = clock
            /\ bucket' = [bucket EXCEPT !.lastRefillTime =
                                           IF bucket.set THEN Earlier(@, 1, -capacity) ELSE @]
            /\ now' = [t \in Tasks |-> IF pc[t] = "tryConsume" THEN now[t] - 1 ELSE now[t]]
            /\ breaker' = [b \in Processes |->
                             [breaker[b] EXCEPT !.lastFailureTime =
                                 Earlier(@, 1000, Horizon - 1000 * (resetTimeout \div 1000 + 1))]]
            /\ waiting' = [i \in 1..Len(waiting) |->
                             [waiting[i] EXCEPT !.deadline = Earlier(@, 1000, 0),
                                                !.since = Earlier(@, 1000, 0)]]
            /\ queue' = [i \in 1..Len(queue) |-> EarlierItem(queue[i])]
            /\ queuedRequest' = [t \in Tasks |-> EarlierItem(queuedRequest[t])]
            /\ dequeued' = EarlierItem(dequeued)

Init ==
    /\ clock = 0
    /\ capacity = 1
    /\ fillRate \in SystemFillRates
    /\ bucket = NoBucket
    /\ queue = <<>>
    /\ waiting = <<>>
    /\ failureThreshold \in 1..MaxThreshold
    /\ resetTimeout = TestResetTimeout
    /\ successThreshold \in 1..MaxThreshold
    /\ breaker = [b \in Processes |-> NewBreaker]
    /\ HistoryUnused
    /\ pc = [t \in Tasks |-> IF t = WorkerTask THEN "loop" ELSE "idle"]
    /\ now = [t \in Tasks |-> 0]
    /\ queuedRequest = [t \in Tasks |-> NoItem]
    /\ requestId = [r \in Requests |-> 0]
    /\ tokenConsumed = [t \in Tasks |-> FALSE]
    /\ dequeued = NoItem
    /\ response = [r \in Requests |-> NoResponse]
    /\ calls = [t \in Tasks |-> NoCalls]

Next ==
    \/ \E r \in Requests : LoginRequest(r)
    \/ \E t \in Tasks : ConsumeEval(t)
    \/ \E t \in Tasks : ConsumeError(t)
    \/ \E r \in Requests : LoginEnqueue(r)
    \/ \E t \in Tasks : RpushEval(t)
    \/ \E r \in Requests : LoginEnqueueThrows(r)
    \/ \E r \in Requests, forwarded \in BOOLEAN : LoginUnhandled(r, forwarded)
    \/ \E r \in Requests : LoginQueued(r)
    \/ \E r \in Requests : LoginFire(r)
    \/ \E r \in Requests : LoginBackendOk(r)
    \/ \E r \in Requests, message \in OperationErrors : LoginBackendFail(r, message)
    \/ WorkerBlockDequeue
    \/ WorkerTimeout
    \/ WorkerDequeueThrows
    \/ WorkerProcess
    \/ WorkerReenqueue
    \/ WorkerEnqueueThrows
    \/ WorkerRequeued
    \/ WorkerFire
    \/ WorkerBackendOk
    \/ \E message \in OperationErrors : WorkerBackendFail(message)
    \/ WorkerDelay
    \/ SystemTick

Spec == Init /\ [][Next]_vars

(***************************************************************************)
(* Claims about the request path                                           *)
(***************************************************************************)
Decided(r) == pc[r] \notin {"idle", "tryConsume"}

QueuedResponse(r) ==
    [status |-> 202, message |-> "Request queued. Please wait.", requestId |-> requestId[r]]

\* C10: the handler of every /login request calls tryConsume exactly once.  A
\* denied request makes one enqueue call, with its work item, never calls fire
\* or the backend, and when enqueue has returned it is answered 202 with its
\* request id, and with nothing else.  An admitted request calls fire exactly
\* once, enqueues nothing and is never answered 202.
RequestDispatch ==
    \A r \in Requests :
        /\ calls[r].tryConsume = (IF pc[r] = "idle" THEN 0 ELSE 1)
        /\ ~Decided(r) =>
             /\ calls[r].enqueue = 0 /\ calls[r].rpush = 0
             /\ calls[r].fire = 0 /\ calls[r].backend = 0
             /\ response[r] = NoResponse
        /\ (Decided(r) /\ ~tokenConsumed[r]) =>
             /\ pc[r] \in {"consumed", "rpush", "pushed", "done",
                           "threw", "errored", "unanswered"}
             /\ calls[r].fire = 0 /\ calls[r].backend = 0
             /\ calls[r].enqueue = (IF pc[r] = "consumed" THEN 0 ELSE 1)
             /\ calls[r].rpush = (IF pc[r] \in {"pushed", "done"} THEN 1 ELSE 0)
             /\ pc[r] = "rpush" =>
                  /\ WorkOf(queuedRequest[r]) = WorkItem(r)
                  /\ requestId[r] # 0
             /\ pc[r] = "done" => response[r] = QueuedResponse(r)
             /\ pc[r] \in {"consumed", "rpush", "pushed"} => response[r] = NoResponse
             /\ response[r].status = 202 => pc[r] = "done"
        /\ (Decided(r) /\ tokenConsumed[r]) =>
             /\ pc[r] \in {"consumed", "operation", "done"}
             /\ calls[r].enqueue = 0 /\ calls[r].rpush = 0
             /\ queuedRequest[r] = NoItem
             /\ calls[r].fire = (IF pc[r] = "consumed" THEN 0 ELSE 1)
             /\ calls[r].backend <= 1
             /\ pc[r] = "operation" => calls[r].backend = 1
             /\ response[r].status \in (IF pc[r] = "done" THEN {200, 500, 503} ELSE {0})

\* C10 witness: with the bucket's one token gone, one request was admitted and
\* answered with the backend's result, the other was denied by the script and
\* answered 202 with its id, and its work item is the only item in the queue.
RequestDispatchWitness ==
    \E r, q \in Requests :
        /\ pc[r] = "done" /\ tokenConsumed[r]
        /\ calls[r].backend = 1
        /\ response[r].status = 200
        /\ pc[q] = "done" /\ ~tokenConsumed[q]
        /\ response[q] = QueuedResponse(q)
        /\ bucket.set /\ bucket.tokens = 0
        /\ Len(queue) = 1
        /\ WorkOf(queue[1]) = WorkItem(q)
        /\ queue[1].id # requestId[q]

\* C11: an admitted request that was answered got 503 exactly when fire rejected
\* the call without invoking the backend, and 500 exactly when the backend was
\* invoked and failed (200 when it succeeded); a request whose work item was
\* queued is never answered 500 or 503.
FailureClassification ==
    \A r \in Requests :
        /\ (pc[r] = "done" /\ tokenConsumed[r]) =>
             /\ response[r].status = 503 <=> calls[r].backend = 0
             /\ calls[r].backend = 1 => response[r].status \in {200, 500}
        /\ calls[r].rpush = 1 => response[r].status \notin {500, 503}

\* the handler of r has ended
Ended(r) == pc[r] \in {"done", "errored", "unanswered"}

\* C12: when enqueue fails for a denied request the error is thrown to the
\* handler, and the request is answered with a service error; every request whose
\* handler has ended has a response.
EnqueueFailureAnswered ==
    \A r \in Requests :
        /\ pc[r] \in {"threw", "errored", "unanswered"} =>
             (calls[r].enqueue = 1 /\ calls[r].rpush = 0)
        /\ pc[r] \in {"errored", "unanswered"} => response[r].status \in {500, 503}
        /\ Ended(r) => response[r] # NoResponse

\* the requests whose handler answered with the given status
Answered(status) == {r \in Requests : pc[r] = "done" /\ response[r].status = status}

\* capacity 1, no refill, every request was received: one was admitted and
\* answered by the backend path, the others were queued
DenialScenario ==
    /\ fillRate = <<0, 1>>
    /\ Requests = Answered(202) \cup {r \in Requests : pc[r] = "done" /\ tokenConsumed[r]}
    /\ Cardinality(Answered(202)) = 1

\* C21: when the worker's tryConsume for a popped item is denied, the worker
\* calls neither fire nor the backend, it gives the same work item to enqueue,
\* and the RPUSH of that enqueue puts it at the tail of the list; with capacity
\* 1 and no refill, after one admitted and one queued request, every iteration
\* in which the worker popped the item ends with a list of length 1.
DenialRequeue ==
    [][/\ (pc[WorkerTask] = "consumed" /\ ~tokenConsumed[WorkerTask]
             /\ pc'[WorkerTask] # "consumed") =>
              /\ pc'[WorkerTask] = "rpush"
              /\ WorkOf(queuedRequest'[WorkerTask]) =
                   [requestId |-> dequeued.requestId, method |-> dequeued.method,
                    url |-> dequeued.url, headers |-> dequeued.headers,
                    body |-> dequeued.body]
              /\ calls'[WorkerTask].fire = 0
              /\ calls'[WorkerTask].backend = 0
              /\ breaker' = breaker
       /\ (pc[WorkerTask] = "rpush" /\ ~tokenConsumed[WorkerTask]
             /\ pc'[WorkerTask] = "pushed") =>
              /\ queue' = Append(queue, queuedRequest[WorkerTask])
              /\ dequeued' = dequeued
       /\ (DenialScenario /\ pc[WorkerTask] = "pushed" /\ pc'[WorkerTask] = "delay") =>
              Len(queue') = 1]_vars

\* C21 witness: capacity 1, no refill; one request was answered 200 and the
\* other 202; the worker popped the queued item, was denied by the script,
\* enqueued it again and ended the iteration; the list holds that work item.
DenialRequeueWitness ==
    /\ DenialScenario
    /\ bucket.set /\ bucket.tokens = 0
    /\ pc[WorkerTask] = "delay"
    /\ calls[WorkerTask] = [tryConsume |-> 1, enqueue |-> 1, rpush |-> 1,
                            fire |-> 0, backend |-> 0]
    /\ Len(queue) = 1
    /\ \E r \in Answered(202) : WorkOf(queue[1]) = WorkItem(r)

\* fire, lines 19-26, of the worker's breaker would reject a call made now
WorkerCircuitOpen ==
    /\ breaker["worker"].state = "OPEN"
    /\ ~(clock - breaker["worker"].lastFailureTime > resetTimeout)

\* the worker consumed a token in this iteration and has not invoked the backend
ConsumedNotInvoked ==
    /\ tokenConsumed[WorkerTask]
    /\ calls[WorkerTask].backend = 0

\* C22: when the worker consumed a token for a popped item and fire rejects
\* because its breaker is OPEN, the worker gives the same work item to enqueue
\* without invoking the backend, the RPUSH of that enqueue puts the item at the
\* tail of the list, and the backend is not invoked until the iteration ends.
CircuitOpenRequeue ==
    [][/\ (pc[WorkerTask] = "consumed" /\ tokenConsumed[WorkerTask]
             /\ WorkerCircuitOpen /\ pc'[WorkerTask] # "consumed") =>
              /\ pc'[WorkerTask] = "rpush"
              /\ WorkOf(queuedRequest'[WorkerTask]) =
                   [requestId |-> dequeued.requestId, method |-> dequeued.method,
                    url |-> dequeued.url, headers |-> dequeued.headers,
                    body |-> dequeued.body]
              /\ calls'[WorkerTask].fire = 1
              /\ calls'[WorkerTask].backend = 0
              /\ breaker' = breaker
       /\ (pc[WorkerTask] = "rpush" /\ ConsumedNotInvoked
             /\ pc'[WorkerTask] = "pushed") =>
              /\ queue' = Append(queue, queuedRequest[WorkerTask])
              /\ calls'[WorkerTask].backend = 0
       /\ (pc[WorkerTask] = "pushed" /\ ConsumedNotInvoked) =>
              /\ pc'[WorkerTask] \in {"pushed", "delay"}
              /\ calls'[WorkerTask].backend = 0]_vars

\* C22 witness: the worker's breaker is OPEN; the worker consumed a token for a
\* popped item, fire rejected, and the item is at the tail of the list behind
\* another one; the backend was not invoked.
CircuitOpenRequeueWitness ==
    /\ pc[WorkerTask] = "pushed"
    /\ tokenConsumed[WorkerTask]
    /\ calls[WorkerTask] = [tryConsume |-> 1, enqueue |-> 1, rpush |-> 1,
                            fire |-> 1, backend |-> 0]
    /\ breaker["worker"].state = "OPEN"
    /\ Len(queue) = 2
    /\ WorkOf(queue[2]) = WorkOf(dequeued)

\* C23: whenever the worker's backend operation was invoked and throws, with
\* any error it can throw, the item is dropped: the worker does not call
\* enqueue, the list is as before, and the worker holds the item no longer.
BackendErrorDrops ==
    [][\A message \in OperationErrors :
          WorkerBackendFail(message) =>
              /\ pc'[WorkerTask] = "delay"
              /\ calls'[WorkerTask].enqueue = 0
              /\ queuedRequest'[WorkerTask] = NoItem
              /\ dequeued' = NoItem
              /\ queue' = queue]_vars

\* the requestIds of the work items among the given items
WorkIds(items) == {x.requestId : x \in {y \in items : y # NoItem}}

\* the requestIds of the work items that are in the list, on their way to or
\* from it, or held by the worker that popped them
HeldIds ==
    WorkIds({queue[i] : i \in 1..Len(queue)})
        \cup WorkIds({queuedRequest[t] : t \in Tasks})
        \cup WorkIds({dequeued})

\* C24: a request that was answered 202 and whose work item is in the list or
\* held by the worker stays so in every step, unless the worker that holds it
\* has invoked the backend for it.
NoQueuedRequestLost ==
    [][\A r \in Answered(202) :
          (requestId[r] \in HeldIds /\ requestId[r] \notin HeldIds') =>
              /\ dequeued # NoItem
              /\ dequeued.requestId = requestId[r]
              /\ calls[WorkerTask].backend >= 1]_vars

\* the steps of the handler of r after the request was received: an awaited
\* call returns or throws, or a synchronous part of the handler runs
LoginProgress(r) ==
    \/ ConsumeEval(r)
    \/ ConsumeError(r)
    \/ LoginEnqueue(r)
    \/ RpushEval(r)
    \/ LoginEnqueueThrows(r)
    \/ \E forwarded \in BOOLEAN : LoginUnhandled(r, forwarded)
    \/ LoginQueued(r)
    \/ LoginFire(r)
    \/ LoginBackendOk(r)
    \/ \E message \in OperationErrors : LoginBackendFail(r, message)

\* the steps of the worker in which an awaited call returns or throws, or a
\* synchronous part of the loop runs; the failure of the blocking connection
\* is not among them: nothing makes it happen
WorkerProgress ==
    \/ WorkerBlockDequeue
    \/ WorkerTimeout
    \/ WorkerProcess
    \/ ConsumeEval(WorkerTask)
    \/ ConsumeError(WorkerTask)
    \/ WorkerReenqueue
    \/ RpushEval(WorkerTask)
    \/ WorkerEnqueueThrows
    \/ WorkerRequeued
    \/ WorkerFire
    \/ WorkerBackendOk
    \/ \E message \in OperationErrors : WorkerBackendFail(message)
    \/ WorkerDelay

\* time passes, every awaited call of a handler and of the worker ends, and
\* the event loop runs what is ready
Fairness ==
    /\ WF_vars(Elapse)
    /\ WF_vars(WorkerProgress)
    /\ \A r \in Requests : WF_vars(LoginProgress(r))

\* the one /login request of a behaviour is received
OnlyLoginRequest(r) ==
    /\ \A q \in Requests : pc[q] = "idle"
    /\ LoginRequest(r)

LiveNext ==
    \/ \E r \in Requests : OnlyLoginRequest(r)
    \/ \E t \in Tasks : ConsumeEval(t)
    \/ \E t \in Tasks : ConsumeError(t)
    \/ \E r \in Requests : LoginEnqueue(r)
    \/ \E t \in Tasks : RpushEval(t)
    \/ \E r \in Requests : LoginEnqueueThrows(r)
    \/ \E r \in Requests, forwarded \in BOOLEAN : LoginUnhandled(r, forwarded)
    \/ \E r \in Requests : LoginQueued(r)
    \/ \E r \in Requests : LoginFire(r)
    \/ \E r \in Requests : LoginBackendOk(r)
    \/ \E r \in Requests, message \in OperationErrors : LoginBackendFail(r, message)
    \/ WorkerBlockDequeue
    \/ WorkerTimeout
    \/ WorkerDequeueThrows
    \/ WorkerProcess
    \/ WorkerReenqueue
    \/ WorkerEnqueueThrows
    \/ WorkerRequeued
    \/ WorkerFire
    \/ WorkerBackendOk
    \/ \E message \in OperationErrors : WorkerBackendFail(message)
    \/ WorkerDelay
    \/ Elapse

\* the worker and one /login request, in time without end
SpecLive == Init /\ [][LiveNext]_vars /\ Fairness

\* C26: the worker calls blockDequeue again and again, whatever calls failed
\* before: the loop never ends.
WorkerNeverTerminates == []<>(<<WorkerBlockDequeue>>_vars)

\* C26 witness: the store call of the worker's re-enqueue failed, the error was
\* caught, the delay has passed and the worker is about to call blockDequeue.
WorkerNeverTerminatesWitness ==
    /\ pc[WorkerTask] = "loop"
    /\ calls[WorkerTask].enqueue = 1
    /\ calls[WorkerTask].rpush = 0

ReplayNext ==
    \/ \E r \in Requests : LoginRequest(r)
    \/ \E t \in Tasks : ConsumeEval(t)
    \/ \E t \in Tasks : ConsumeError(t)
    \/ \E r \in Requests : LoginEnqueue(r)
    \/ \E r \in Requests : RpushFirst(r)
    \/ RpushEval(WorkerTask)
    \/ \E r \in Requests : LoginQueued(r)
    \/ \E r \in Requests : LoginFire(r)
    \/ \E r \in Requests : LoginBackendOk(r)
    \/ \E r \in Requests, message \in OperationErrors : LoginBackendFail(r, message)
    \/ WorkerBlockDequeue
    \/ WorkerTimeout
    \/ WorkerProcess
    \/ WorkerReenqueue
    \/ WorkerRequeued
    \/ WorkerFireFirst
    \/ WorkerBackendOk
    \/ \E message \in OperationErrors : WorkerBackendFail(message)
    \/ WorkerDelay
    \/ SystemTick

\* the system with the queue always reachable, and with a record of the order
\* in which the coordinator queued the work items and the worker first
\* dispatched them
SpecReplay == Init /\ [][ReplayNext]_vars

\* the place of x in the sequence s
Place(s, x) == CHOOSE i \in 1..Len(s) : s[i] = x

\* C27: the work items the worker has dispatched to the backend were dispatched
\* in the order in which the coordinator first enqueued them.
ReplayInArrivalOrder ==
    \A i, j \in 1..Len(popped) :
        i < j => Place(appended, popped[i]) < Place(appended, popped[j])

\* C30: a task invokes the backend only after its own tryConsume returned true,
\* and at most once for it; the stored bucket is changed by nothing but the
\* script of a tryConsume call, so a rejection by an OPEN breaker gives no
\* token back.
BackendBoundedByTokens ==
    [][/\ \A t \in Tasks :
            calls'[t].backend > calls[t].backend =>
                /\ pc[t] = "consumed"
                /\ tokenConsumed[t]
                /\ calls[t].tryConsume = 1
                /\ calls[t].backend = 0
                /\ calls'[t].backend = 1
       /\ bucket' # bucket =>
            \E t \in Tasks :
                /\ pc[t] = "tryConsume"
                /\ pc'[t] = "consumed"
                /\ bucket' = ConsumeScript(bucket, capacity, fillRate, now[t]).bucket]_vars

\* C30 witness: the worker consumed the bucket's token for a popped item and
\* its OPEN breaker rejected the call: the backend was not invoked, and the
\* bucket is empty as the script left it.
BackendBoundedByTokensWitness ==
    /\ pc[WorkerTask] = "rpush"
    /\ tokenConsumed[WorkerTask]
    /\ calls[WorkerTask].fire = 1
    /\ calls[WorkerTask].backend = 0
    /\ breaker["worker"].state = "OPEN"
    /\ bucket.set /\ bucket.tokens = 0

DrainNext ==
    \/ \E r \in Requests : LoginRequest(r)
    \/ \E t \in Tasks : ConsumeEval(t)
    \/ \E r \in Requests : LoginEnqueue(r)
    \/ \E t \in Tasks : RpushEval(t)
    \/ \E r \in Requests : LoginQueued(r)
    \/ \E r \in Requests : LoginFire(r)
    \/ \E r \in Requests : LoginBackendOk(r)
    \/ \E r \in Requests, message \in OperationErrors : LoginBackendFail(r, message)
    \/ WorkerBlockDequeue
    \/ WorkerTimeout
    \/ WorkerProcess
    \/ WorkerReenqueue
    \/ WorkerRequeued
    \/ WorkerFire
    \/ WorkerBackendOk
    \/ \E message \in OperationErrors : WorkerBackendFail(message)
    \/ WorkerDelay
    \/ Elapse

\* the system at its start, with fillRate 1
DrainInit ==
    /\ Init
    /\ fillRate = <<1, 1>>

\* the system with the store always available and a bucket refilled by one
\* token a second, in time without end; the requests of a behaviour are
\* finitely many, so from some instant on no new request arrives
SpecDrain == DrainInit /\ [][DrainNext]_vars /\ Fairness

\* the worker has invoked the backend for the work item of r
Dispatching(r) ==
    /\ pc[WorkerTask] = "operation"
    /\ dequeued # NoItem
    /\ dequeued.requestId = requestId[r]

\* C28: every work item in the queue is eventually dispatched to the backend,
\* and from some instant on the queue is empty and no work item is on its way
\* to it or held by the worker.
QueueDrains ==
    /\ \A r \in Requests : (requestId[r] \in HeldIds) ~> Dispatching(r)
    /\ <>[](HeldIds = {})

(***************************************************************************)
(* The refill test of the bucket (GEMINI.md, 'should refill tokens over    *)
(* time'): one caller drains TokenBucket(10, 1), the last call is denied   *)
(* at some instant of a second, 1.2 seconds pass, then tryConsume and      *)
(* getTokens are called.  The calls are sequential: each is one step.      *)
(***************************************************************************)
\* new TokenBucket(10, 1, key)
TestCapacity == 10

\* setTimeout(resolve, 1200)
RefillWait == 1200

\* the instants of second 0, in tenths, at which the draining calls are made
DrainInstants == {t \in 0..999 : t % 100 = 0}

\* the bucket is empty and the last call was denied
Drained ==
    /\ bucket.set
    /\ bucket.tokens = 0
    /\ ret = [op |-> "tryConsume", val |-> FALSE, threw |-> FALSE]

\* await tokenBucket.tryConsume() with nothing else running: lines 48-59
AwaitTryConsume ==
    /\ LET out == ConsumeScript(bucket, capacity, fillRate, NowSeconds(clock))
       IN  /\ bucket' = out.bucket
           /\ ret' = [op |-> "tryConsume", val |-> (out.result = 1), threw |-> FALSE]
    /\ batch' = NextBatch(bucket, capacity, fillRate, NowSeconds(clock), 1)
    /\ UNCHANGED <<systemVars, clock, capacity, fillRate, pc, now, queueVars,
                   queuedRequest, breakerVars>>

\* the draining loop and the call expected to be denied
DrainTryConsume ==
    /\ clock < 1000
    /\ ~Drained
    /\ AwaitTryConsume

\* await new Promise(resolve => setTimeout(resolve, 1200))
RefillWaits ==
    /\ clock < 1000
    /\ Drained
    /\ clock' = clock + RefillWait
    /\ UNCHANGED <<systemVars, limiterVars, taskVars, queueVars, breakerVars>>

\* const hasToken = await tokenBucket.tryConsume()
RefilledTryConsume ==
    /\ clock >= RefillWait
    /\ Drained
    /\ AwaitTryConsume

\* const currentTokens = await tokenBucket.getTokens(): lines 74-109
RefilledGetTokens ==
    /\ clock >= RefillWait
    /\ ret.op = "tryConsume"
    /\ ~Drained
    /\ ret' = [op |-> "getTokens",
               val |-> GetTokensScript(bucket, capacity, fillRate, NowSeconds(clock)),
               threw |-> FALSE]
    /\ UNCHANGED <<systemVars, clock, limiterVars, pc, now, queueVars,
                   queuedRequest, breakerVars>>

RefillInit ==
    /\ clock \in DrainInstants
    /\ capacity = TestCapacity
    /\ fillRate = <<1, 1>>
    /\ bucket = NoBucket
    /\ batch = [k |-> capacity, n |-> 0, admitted |-> 0, conc |-> 0]
    /\ ClientsIdle
    /\ QueueEmpty
    /\ BreakerUnused
    /\ SystemUnused

RefillNext ==
    \/ DrainTryConsume
    \/ RefillWaits
    \/ RefilledTryConsume
    \/ RefilledGetTokens

SpecRefill == RefillInit /\ [][RefillNext]_vars

\* C15: whatever the instant of the denied call that ended the drain, after 1.2
\* seconds without calls the next tryConsume is admitted and the getTokens after
\* it returns 0: exactly one token was credited.
RefillAmount ==
    clock >= RefillWait =>
        /\ ret.op = "tryConsume" => (Drained \/ ret.val = TRUE)
        /\ ret.op = "getTokens" => ret.val = 0

(***************************************************************************)
(* One caller polling the bucket: tryConsume is called again and again,    *)
(* one call at a time, while time passes without end.                      *)
(***************************************************************************)
\* await tokenBucket.tryConsume() with nothing else running, lines 48-59
PollTryConsume ==
    /\ LET out == ConsumeScript(bucket, capacity, fillRate, NowSeconds(clock))
       IN  /\ bucket' = out.bucket
           /\ ret' = [op |-> "tryConsume", val |-> (out.result = 1), threw |-> FALSE]
    /\ UNCHANGED <<systemVars, clock, capacity, fillRate, batch, pc, now, queueVars,
                   queuedRequest, breakerVars>>

\* Date.now() one second later.  After MaxBucketTicks seconds the origin of
\* time advances instead of the clock, and lastRefillTime is one second
\* earlier; a lastRefillTime so far back that the bucket is refilled fully is
\* not moved further.
PollElapse ==
    /\ IF clock + 1000 <= 1000 * MaxBucketTicks
       THEN /\ clock' = clock + 1000
            /\ UNCHANGED bucket
       ELSE /\ clock' = clock
            /\ bucket' = [bucket EXCEPT !.lastRefillTime =
                            IF bucket.set
                            THEN Earlier(@, 1, NowSeconds(clock) - capacity * fillRate[2])
                            ELSE @]
    /\ UNCHANGED <<systemVars, capacity, fillRate, batch, taskVars, queueVars, breakerVars>>

PollInit ==
    /\ clock = 0
    /\ capacity \in 1..MaxCapacity
    /\ fillRate \in {rate \in FillRates : rate[1] > 0}
    /\ bucket = NoBucket
    /\ batch = [k |-> capacity, n |-> 0, admitted |-> 0, conc |-> 0]
    /\ ClientsIdle
    /\ QueueEmpty
    /\ BreakerUnused
    /\ SystemUnused

PollNext ==
    \/ PollTryConsume
    \/ PollElapse

\* the caller keeps calling and time keeps passing
SpecPoll == PollInit /\ [][PollNext]_vars /\ WF_vars(PollTryConsume) /\ WF_vars(PollElapse)

\* C29: after a denied call, some later call is admitted.
DeniedEventuallyAdmitted ==
    (ret.op = "tryConsume" /\ ret.val = FALSE) ~> (ret.op = "tryConsume" /\ ret.val = TRUE)

====
